---- MODULE Spec2Model ----
(***************************************************************************)
(* Model of the elecro/vkdemos example programs.                           *)
(*                                                                         *)
(* Three of the programs (vktriangle_glfw, vktriangle_subpass and          *)
(* vktriangle_external_memory) share the same draw-and-present loop; the   *)
(* last one also starts a producer thread that renders into an image whose *)
(* memory is exported as a file descriptor and imported by main.           *)
(*                                                                         *)
(* The device is modelled as a set of submissions in flight that complete  *)
(* one at a time; a completing submission signals its fence and writes its *)
(* destination image.                                                      *)
(***************************************************************************)
EXTENDS Integers, Sequences, FiniteSets, TLC

\* ---------------------------------------------------------------- bounds
\* Largest number of swapchain images the surface may create.
MaxImages == 3
\* Largest number of loop iterations before the window is closed.
MaxFrames == 4

\* ------------------------------------------------------ program constants
imagesInFlight == 2
\* counter = (counter + 1) % 3 in the producer; three vec4 of uniform data.
InstanceCount == 3
UniformVec4Count == 3

Examples == {"glfw", "subpass", "extmem"}

\* VK_NULL_HANDLE in the per-image fence table.
NullFence == 0 - 1
\* Content of an image (or of memory) nothing has written yet.
Undefined == 0 - 1
\* exposedImageFd before the producer publishes; importedImageFd before main reads.
NoFd == 0 - 1
NotRead == 0 - 2
\* No producer submission is in flight.
NoPending == 0 - 1
\* The descriptors vkGetMemoryFdKHR may hand out.
ExportedFds == {3}

NoSubmit == [cb |-> 0 - 1, fence |-> 0 - 1, waitSem |-> 0 - 1, signalSem |-> 0 - 1]
NoPresent == [image |-> 0 - 1, waitSem |-> 0 - 1]

VARIABLES
    example,          \* which program runs
    numImages,        \* swapImages.size()
    pc,               \* position of the main thread
    frame,            \* loop iterations started
    activeSyncIdx,
    imageIndex,
    fenceSignaled,    \* activeFences[i] is signaled
    swapImagesFences, \* per-image fence table: NullFence or a slot index
    inflight,         \* frame submissions issued and not completed
    imageWritten,     \* swapImages[k] was written by a completed submission
    image0Content,    \* what swapImages[0], the image read back, holds
    uniformData,      \* rotation of the uniform colours (subpass example)
    steps,            \* steps of the current iteration, in order
    lastSubmit,       \* VkSubmitInfo + fence of the current iteration
    lastPresent,      \* VkPresentInfoKHR of the current iteration
    presentWaits,     \* present requests whose semaphore wait has not completed
    presentsFollowed, \* whether the present requests are followed
    failedCall,       \* native call that returned a non-success result
    ppm,              \* pixels written to the output file
    tpc,              \* position of the producer thread
    mutexOwner,       \* syncMutex
    cvWaiters,        \* threads blocked in signal.wait / wait_for
    exposedImageFd,
    importedImageFd,
    counter,          \* producer's instance counter
    sharedContent,    \* content of the exported image memory
    threadPending,    \* producer submission in flight
    publishedContent, \* sharedContent at the moment the fd was published
    shutdownIssued,   \* main has issued the shutdown notify_one
    waitResult,       \* what the producer's wait_for returns
    run,              \* 1 or 2: first or second run of the same example
    ppm1,             \* output of the first run
    passPc,           \* position in the render pass of the subpass example
    pixel,            \* the framebuffer pixel followed through the render pass
    attachments,      \* texel of each framebuffer attachment at that pixel
    progress,         \* draws executed so far, per subpass
    outColor,         \* outColor of the compose fragment shader
    accesses,         \* attachment reads and writes of the render pass so far
    blitPc,           \* position in the blit-and-readback of the shared image
    srcRow,           \* a pixel row of the image the producer rendered
    dstWidth,         \* swapExtent.width
    dstFormat,        \* surfaceFormat.format
    swapRow,          \* the same row of swapImages[0]
    mainPpm,          \* pixel triplets main writes to its output file
    threadPpm,        \* pixel triplets the producer writes to thread_out.ppm
    resPc,            \* main of the subpass example: running or returned
    resStep,          \* create and destroy calls made so far
    resImages,        \* swapImages.size() of that run
    created,          \* native objects created
    destroyed,        \* native objects destroyed
    destroyedAgain,   \* native objects destroyed more than once
    callProg,         \* the program whose fallible calls are followed
    callStep,         \* fallible calls that have returned and let it go on
    callFailed,       \* positions of the calls that failed
    exitState,        \* running, terminated by an exception, or returned 0
    ppmPc,            \* position of the PPM writer
    ppmExample,       \* the example that writes the file
    renderWidth,      \* renderImageWidth
    renderHeight,     \* renderImageHeight
    fileBytes,        \* the bytes written to the output file so far
    dumpPc,           \* position of the pixel loop of the PPM writer
    dumpWidth,        \* width of the image that is written
    dumpHeight,       \* height of the image that is written
    rowPitch,         \* subResourceLayout.rowPitch
    mapped,           \* the bytes of the mapped image, from subResourceLayout.offset on
    dataPtr,          \* data, as a byte offset into the mapped image
    rowPtr,           \* row, as a byte offset into the mapped image
    dumpX,            \* x of the pixel loop
    dumpY,            \* y of the pixel loop
    pixelBytes,       \* the bytes written to the file after the header
    readOffsets,      \* byte offsets of the mapped image that have been read
    spvPc,            \* position in LoadSPIRV
    spvExists,        \* whether the shader file can be opened
    spvFile,          \* the bytes of the shader file
    spvOrder,         \* byte order of the machine
    fileSize,         \* fileSize
    buffer,           \* buffer, a vector of 32-bit words
    spvResult,        \* how LoadSPIRV ended: returned or threw
    qfPc,             \* position in FindQueueFamily
    queueFamilies,    \* queue families of the device: graphics bit, presentation support
    surfaceGiven,     \* surface != VK_NULL_HANDLE
    queueFamilyIdx,   \* queueFamilyIdx
    hasIdx,           \* *hasIdx
    qfResult,         \* the value FindQueueFamily returned
    cmpPc,            \* position of the compute dispatch
    groupOrder,       \* order in which the device runs the workgroups
    groupsRun,        \* workgroups that have run
    dstTexels,        \* what each workgroup stored into the destination image
    written,          \* coordinates of the destination image that were stored to
    rewritten,        \* coordinates stored to more than once
    outside           \* coordinates outside the image that a store was issued for

loopVars == <<frame, activeSyncIdx, imageIndex, fenceSignaled, swapImagesFences,
              inflight, imageWritten, image0Content, uniformData, steps,
              lastSubmit, lastPresent, presentWaits, presentsFollowed, failedCall, ppm>>
threadVars == <<tpc, mutexOwner, cvWaiters, exposedImageFd, importedImageFd, counter,
                sharedContent, threadPending, publishedContent,
                shutdownIssued, waitResult>>
passVars == <<passPc, pixel, attachments, progress, outColor, accesses>>
\* State of the parts of the programs that are followed on their own.
blitVars == <<blitPc, srcRow, dstWidth, dstFormat, swapRow, mainPpm, threadPpm>>
resVars == <<resPc, resStep, resImages, created, destroyed, destroyedAgain>>
callVars == <<callProg, callStep, callFailed, exitState>>
ppmVars == <<ppmPc, ppmExample, renderWidth, renderHeight, fileBytes>>
dumpVars == <<dumpPc, dumpWidth, dumpHeight, rowPitch, mapped, dataPtr, rowPtr, dumpX, dumpY, pixelBytes, readOffsets>>
spvVars == <<spvPc, spvExists, spvFile, spvOrder, fileSize, buffer, spvResult>>
qfVars == <<qfPc, queueFamilies, surfaceGiven, queueFamilyIdx, hasIdx, qfResult>>
cmpVars == <<cmpPc, groupOrder, groupsRun, dstTexels, written, rewritten, outside>>
partVars == <<passVars, blitVars, resVars, callVars, ppmVars,
             dumpVars, spvVars, qfVars, cmpVars>>
runVars == <<example, numImages, run, ppm1, partVars>>
\* Everything but the render pass.
frameVars == <<pc, loopVars, threadVars, example, numImages, run, ppm1>>
restOfPass == <<frameVars, blitVars, resVars, callVars, ppmVars, dumpVars, spvVars,
    qfVars, cmpVars>>
restOfBlit == <<frameVars, passVars, resVars, callVars, ppmVars, dumpVars, spvVars,
    qfVars, cmpVars>>
restOfRes == <<frameVars, passVars, blitVars, callVars, ppmVars, dumpVars, spvVars,
    qfVars, cmpVars>>
restOfCall == <<frameVars, passVars, blitVars, resVars, ppmVars, dumpVars, spvVars,
    qfVars, cmpVars>>
restOfPpm == <<frameVars, passVars, blitVars, resVars, callVars, dumpVars, spvVars,
    qfVars, cmpVars>>
restOfDump == <<frameVars, passVars, blitVars, resVars, callVars,
    ppmVars, spvVars, qfVars, cmpVars>>
restOfSpv == <<frameVars, passVars, blitVars, resVars, callVars,
    ppmVars, dumpVars, qfVars, cmpVars>>
restOfQf == <<frameVars, passVars, blitVars, resVars, callVars,
    ppmVars, dumpVars, spvVars, cmpVars>>
restOfCmp == <<frameVars, passVars, blitVars, resVars, callVars,
    ppmVars, dumpVars, spvVars, qfVars>>
vars == <<pc, loopVars, threadVars, runVars>>

Slots == 0 .. (imagesInFlight - 1)
Images == 0 .. (numImages - 1)

\* ------------------------------------------------------------------ Init
\* Only the memory-sharing example starts the producer thread and waits for its
\* descriptor before the loop.
StartPc(ex) == IF ex = "extmem" THEN "m_lockFd" ELSE "loop"
StartTpc(ex) == IF ex = "extmem" THEN "t_setup" ELSE "t_none"

\* State once the setup of main is done (the swapchain has n images, the sync
\* objects exist, the fences are created signaled, the producer is started).
StartOfRun(ex, n, followed) ==
    /\ example = ex
    /\ numImages = n
    /\ pc = StartPc(ex)
    /\ frame = 0
    /\ activeSyncIdx = 0
    /\ imageIndex = 0
    /\ fenceSignaled = [i \in Slots |-> TRUE]
    /\ swapImagesFences = [k \in 0 .. (n - 1) |-> NullFence]
    /\ inflight = {}
    /\ imageWritten = [k \in 0 .. (n - 1) |-> FALSE]
    /\ image0Content = Undefined
    /\ uniformData = 0
    /\ steps = <<>>
    /\ lastSubmit = NoSubmit
    /\ lastPresent = NoPresent
    /\ presentWaits = {}
    /\ presentsFollowed = followed
    /\ failedCall = "none"
    /\ ppm = Undefined
    /\ tpc = StartTpc(ex)
    /\ mutexOwner = "none"
    /\ cvWaiters = {}
    /\ exposedImageFd = NoFd
    /\ importedImageFd = NotRead
    /\ counter = 0
    /\ sharedContent = Undefined
    /\ threadPending = NoPending
    /\ publishedContent = Undefined
    /\ shutdownIssued = FALSE
    /\ waitResult = "none"

\* The same, the present requests not being followed.
StartOfMain(ex, n) == StartOfRun(ex, n, FALSE)

\* The render pass of the subpass example is not being followed.
PassIdle ==
    /\ passPc = "none"
    /\ pixel = <<>>
    /\ attachments = <<>>
    /\ progress = <<>>
    /\ outColor = <<>>
    /\ accesses = {}

\* The blit of the memory-sharing example is not being followed.
BlitIdle ==
    /\ blitPc = "none"
    /\ srcRow = <<>>
    /\ dstWidth = 0
    /\ dstFormat = "none"
    /\ swapRow = <<>>
    /\ mainPpm = <<>>
    /\ threadPpm = <<>>

\* The native objects of the subpass example are not being followed.
ResIdle ==
    /\ resPc = "none"
    /\ resStep = 0
    /\ resImages = 0
    /\ created = {}
    /\ destroyed = {}
    /\ destroyedAgain = {}

\* The fallible calls are not being followed.
CallIdle ==
    /\ callProg = "none"
    /\ callStep = 0
    /\ callFailed = {}
    /\ exitState = "none"

\* The PPM writer is not being followed.
PpmIdle ==
    /\ ppmPc = "none"
    /\ ppmExample = "none"
    /\ renderWidth = 0
    /\ renderHeight = 0
    /\ fileBytes = <<>>

\* The pixel loop of the PPM writer is not being followed.
DumpIdle ==
    /\ dumpPc = "none"
    /\ dumpWidth = 0
    /\ dumpHeight = 0
    /\ rowPitch = 0
    /\ mapped = <<>>
    /\ dataPtr = 0
    /\ rowPtr = 0
    /\ dumpX = 0
    /\ dumpY = 0
    /\ pixelBytes = <<>>
    /\ readOffsets = {}

\* LoadSPIRV is not being followed.
SpvIdle ==
    /\ spvPc = "none"
    /\ spvExists = FALSE
    /\ spvFile = <<>>
    /\ spvOrder = "none"
    /\ fileSize = 0
    /\ buffer = <<>>
    /\ spvResult = "none"

\* FindQueueFamily is not being followed.
QfIdle ==
    /\ qfPc = "none"
    /\ queueFamilies = <<>>
    /\ surfaceGiven = FALSE
    /\ queueFamilyIdx = 0
    /\ hasIdx = FALSE
    /\ qfResult = 0

\* The compute dispatch is not being followed.
CmpIdle ==
    /\ cmpPc = "none"
    /\ groupOrder = "none"
    /\ groupsRun = 0
    /\ dstTexels = <<>>
    /\ written = {}
    /\ rewritten = {}
    /\ outside = {}

\* Every part but the named one is at rest.
OnlyPart(p) ==
    /\ p # "pass" => PassIdle
    /\ p # "blit" => BlitIdle
    /\ p # "res" => ResIdle
    /\ p # "call" => CallIdle
    /\ p # "ppm" => PpmIdle
    /\ p # "dump" => DumpIdle
    /\ p # "spv" => SpvIdle
    /\ p # "qf" => QfIdle
    /\ p # "cmp" => CmpIdle

PartsIdle == OnlyPart("none")

Init ==
    /\ \E ex \in Examples : \E n \in 1 .. MaxImages : StartOfMain(ex, n)
    /\ run = 1
    /\ ppm1 = Undefined
    /\ PartsIdle

\* ------------------------------------------------- draw-and-present loop
Log(name) == steps' = Append(steps, name)

\* What a frame submission leaves in its destination image.
\*   glfw:    cmdBuffers[idx] draws with firstInstance = idx
\*   subpass: the colours come from the uniform buffer, read when it executes
\*   extmem:  the blit copies whatever the shared image holds when it executes
RenderedContent(s) ==
    CASE example = "glfw" -> s.cb
      [] example = "subpass" -> uniformData
      [] OTHER -> sharedContent

\* while (!glfwWindowShouldClose(window)): the window has been closed.
LoopExit ==
    /\ pc = "loop"
    /\ pc' = "readback"
    /\ UNCHANGED <<loopVars, threadVars, runVars>>

\* The rotation applied to the uniform data at the top of an iteration.
RotateUniform(u) ==
    IF example = "subpass" THEN (u + 1) % UniformVec4Count ELSE u

\* glfwPollEvents(), and in the subpass example the host write of the rotated
\* uniform data (map, rotate, memcpy, flush, unmap).
LoopEnter ==
    /\ pc = "loop"
    /\ frame < MaxFrames
    /\ frame' = frame + 1
    /\ uniformData' = RotateUniform(uniformData)
    /\ steps' = <<>>
    /\ lastSubmit' = NoSubmit
    /\ lastPresent' = NoPresent
    /\ pc' = "wait"
    /\ UNCHANGED <<activeSyncIdx, imageIndex, fenceSignaled, swapImagesFences, inflight,
                   imageWritten, image0Content, presentWaits, presentsFollowed,
                   failedCall, ppm, threadVars, runVars>>

\* Faulty variant: the loop does not wait for the slot's fence.
WaitSkipped(i) == TRUE

\* vkWaitForFences(.., &activeFences[activeSyncIdx], VK_TRUE, UINT64_MAX) returns
\* VK_SUCCESS once the fence is signaled.
WaitReady(i) == fenceSignaled[i]

Wait ==
    /\ pc = "wait"
    /\ WaitReady(activeSyncIdx)
    /\ Log("WAIT")
    /\ pc' = "acquire"
    /\ UNCHANGED <<frame, activeSyncIdx, imageIndex, fenceSignaled, swapImagesFences,
                   inflight, imageWritten, image0Content, uniformData, lastSubmit,
                   lastPresent, presentWaits, presentsFollowed, failedCall, ppm, threadVars, runVars>>

\* vkAcquireNextImageKHR hands out an image index of the swapchain.
Acquire ==
    /\ pc = "acquire"
    /\ \E k \in Images : imageIndex' = k
    /\ Log("ACQUIRE")
    /\ pc' = "guard"
    /\ UNCHANGED <<frame, activeSyncIdx, fenceSignaled, swapImagesFences, inflight,
                   imageWritten, image0Content, uniformData, lastSubmit, lastPresent, presentWaits, presentsFollowed,
                   failedCall, ppm, threadVars, runVars>>

\* Faulty variant: the per-image fence table is not consulted.
GuardSkipped(k) == TRUE

\* Faulty variant: the slot's fence is reset before the per-image fence is waited
\* for, so a per-image fence that is the slot's own fence never signals.
GuardAfterReset(k) ==
    swapImagesFences[k] # NullFence =>
        (swapImagesFences[k] # activeSyncIdx /\ fenceSignaled[swapImagesFences[k]])

\* if (swapImagesFences[imageIndex] != VK_NULL_HANDLE) vkWaitForFences(..)
GuardReady(k) ==
    swapImagesFences[k] # NullFence => fenceSignaled[swapImagesFences[k]]

\* swapImagesFences[imageIndex] = activeFences[activeSyncIdx]
Guard ==
    /\ pc = "guard"
    /\ GuardReady(imageIndex)
    /\ swapImagesFences' = [swapImagesFences EXCEPT ![imageIndex] = activeSyncIdx]
    /\ Log("GUARD")
    /\ pc' = "reset"
    /\ UNCHANGED <<frame, activeSyncIdx, imageIndex, fenceSignaled, inflight,
                   imageWritten, image0Content, uniformData, lastSubmit, lastPresent, presentWaits, presentsFollowed,
                   failedCall, ppm, threadVars, runVars>>

\* vkResetFences(device, 1, &activeFences[activeSyncIdx])
Reset ==
    /\ pc = "reset"
    /\ fenceSignaled' = [fenceSignaled EXCEPT ![activeSyncIdx] = FALSE]
    /\ Log("RESET")
    /\ pc' = "submit"
    /\ UNCHANGED <<frame, activeSyncIdx, imageIndex, swapImagesFences, inflight,
                   imageWritten, image0Content, uniformData, lastSubmit, lastPresent, presentWaits, presentsFollowed,
                   failedCall, ppm, threadVars, runVars>>

\* Faulty variant: the command buffer is picked by slot instead of by acquired image.
SubmitCbOfSlot == activeSyncIdx

\* submitInfo.pCommandBuffers = &cmdBuffers[imageIndex]
SubmitCb == imageIndex
\* vkQueueSubmit(queue, 1, &submitInfo, activeFences[activeSyncIdx])
SubmitFence == activeSyncIdx

\* The VkSubmitInfo built in G.25.4 and the fence handed to vkQueueSubmit.
SubmitInfo ==
    [cb |-> SubmitCb, fence |-> SubmitFence,
     waitSem |-> activeSyncIdx, signalSem |-> activeSyncIdx]

Submit ==
    /\ pc = "submit"
    /\ lastSubmit' = SubmitInfo
    /\ inflight' = inflight \cup
                     {[id |-> frame, cb |-> SubmitInfo.cb, fence |-> SubmitInfo.fence]}
    /\ Log("SUBMIT")
    /\ pc' = "present"
    /\ UNCHANGED <<frame, activeSyncIdx, imageIndex, fenceSignaled, swapImagesFences,
                   imageWritten, image0Content, uniformData, lastPresent, presentWaits, presentsFollowed, failedCall,
                   ppm, threadVars, runVars>>

\* presentInfo.pWaitSemaphores = signalSemaphores; pImageIndices = &imageIndex
PresentInfo == [image |-> imageIndex, waitSem |-> activeSyncIdx]

\* The present request vkQueuePresentKHR queues: it waits on the render-finished
\* semaphore of the slot before the image is shown.
QueuedPresent == [id |-> frame, sem |-> PresentInfo.waitSem, image |-> PresentInfo.image]

\* vkQueuePresentKHR(queue, &presentInfo)
Present ==
    /\ pc = "present"
    /\ lastPresent' = PresentInfo
    /\ presentWaits' = IF presentsFollowed THEN presentWaits \cup {QueuedPresent}
                                           ELSE presentWaits
    /\ Log("PRESENT")
    /\ pc' = "advance"
    /\ UNCHANGED <<frame, activeSyncIdx, imageIndex, fenceSignaled, swapImagesFences,
                   inflight, imageWritten, image0Content, uniformData, lastSubmit,
                   presentsFollowed, failedCall, ppm, threadVars, runVars>>

\* The presentation engine performs the semaphore wait of a present request; the
\* semaphore is signaled once the submission of the same iteration has
\* completed. Nothing tells the host when this has happened.
PresentDone ==
    /\ \E p \in presentWaits :
        /\ \A s \in inflight : s.id # p.id
        /\ presentWaits' = presentWaits \ {p}
    /\ UNCHANGED <<pc, frame, activeSyncIdx, imageIndex, fenceSignaled, swapImagesFences,
                   inflight, imageWritten, image0Content, uniformData, steps, lastSubmit,
                   lastPresent, presentsFollowed, failedCall, ppm, threadVars, runVars>>

\* Faulty variant: the slot index is left as it is at the end of the iteration.
AdvanceSticks ==
    /\ pc = "advance"
    /\ pc' = "loop"
    /\ UNCHANGED <<loopVars, threadVars, runVars>>

\* activeSyncIdx = (activeSyncIdx + 1) % imagesInFlight
Advance ==
    /\ pc = "advance"
    /\ activeSyncIdx' = (activeSyncIdx + 1) % imagesInFlight
    /\ pc' = "loop"
    /\ UNCHANGED <<frame, imageIndex, fenceSignaled, swapImagesFences, inflight,
                   imageWritten, image0Content, uniformData, steps, lastSubmit,
                   lastPresent, presentWaits, presentsFollowed, failedCall, ppm, threadVars, runVars>>

\* CopyImageToLinearImage(.., swapImages[0], ..): the image that is read back.
ReadbackSource == 0

\* The device finishes one frame submission: the destination image of its
\* command buffer is written and its fence is signaled.
Complete ==
    /\ \E s \in inflight :
        /\ inflight' = inflight \ {s}
        /\ fenceSignaled' = [fenceSignaled EXCEPT ![s.fence] = TRUE]
        /\ imageWritten' = [imageWritten EXCEPT ![s.cb] = TRUE]
        /\ image0Content' = IF s.cb = ReadbackSource THEN RenderedContent(s)
                                                   ELSE image0Content
    /\ UNCHANGED <<pc, frame, activeSyncIdx, imageIndex, swapImagesFences, uniformData,
                   steps, lastSubmit, lastPresent, presentWaits, presentsFollowed, failedCall, ppm, threadVars, runVars>>

\* Frame submissions in flight that write swapImages[k].
Writers(k) == {s \in inflight : s.cb = k}

\* CopyImageToLinearImage(.., swapImages[0], ..) and the PPM write. No semaphore
\* or barrier orders the copy after the frame submissions still in flight, so the
\* copy sees swapImages[0] as it is or as one of the submissions in flight that
\* write it leaves it. The fence of the copy submission is waited for without
\* timeout, and a fence signals only after everything submitted to the queue
\* before it has completed: when the wait returns no frame submission is in flight.
Readback ==
    /\ pc = "readback"
    /\ \E c \in {image0Content} \cup
                {RenderedContent(s) : s \in Writers(ReadbackSource)} : ppm' = c
    /\ inflight' = {}
    /\ fenceSignaled' = [i \in Slots |-> fenceSignaled[i] \/ \E s \in inflight : s.fence = i]
    /\ imageWritten' = [k \in Images |-> imageWritten[k] \/ \E s \in inflight : s.cb = k]
    /\ image0Content' = IF Writers(ReadbackSource) = {} THEN image0Content
                        ELSE RenderedContent(CHOOSE s \in Writers(ReadbackSource) : TRUE)
    /\ pc' = IF example = "extmem" THEN "m_lockShutdown" ELSE "done"
    /\ UNCHANGED <<frame, activeSyncIdx, imageIndex, swapImagesFences, uniformData, steps,
                   lastSubmit, lastPresent, presentWaits, presentsFollowed, failedCall,
                   threadVars, runVars>>

FrameLoop ==
    \/ LoopExit \/ LoopEnter \/ Wait \/ Acquire \/ Guard \/ Reset \/ Submit
    \/ Present \/ Advance \/ Complete \/ Readback

\* ------------------------------------------- main: handoff and shutdown
\* std::unique_lock<std::mutex> lock(threadOptions.syncMutex)
MainLockFd ==
    /\ pc = "m_lockFd"
    /\ mutexOwner = "none"
    /\ mutexOwner' = "main"
    /\ pc' = "m_checkFd"
    /\ UNCHANGED <<loopVars, runVars, tpc, cvWaiters, exposedImageFd, importedImageFd,
                   counter, sharedContent, threadPending, publishedContent, shutdownIssued, waitResult>>

\* if (threadOptions.exposedImageFd == -1) threadOptions.signal.wait(lock);
\* wait releases the mutex and blocks the caller on the condition variable.
MainNeedsWait == exposedImageFd = NoFd

MainCheckFd ==
    /\ pc = "m_checkFd"
    /\ IF MainNeedsWait
         THEN /\ cvWaiters' = cvWaiters \cup {"main"}
              /\ mutexOwner' = "none"
              /\ pc' = "m_fdWait"
         ELSE /\ pc' = "m_unlockFd"
              /\ UNCHANGED <<cvWaiters, mutexOwner>>
    /\ UNCHANGED <<loopVars, runVars, tpc, exposedImageFd, importedImageFd, counter,
                   sharedContent, threadPending, publishedContent,
                   shutdownIssued, waitResult>>

\* signal.wait returns: the caller was unblocked and takes the mutex again.
MainFdWoken ==
    /\ pc = "m_fdWait"
    /\ "main" \notin cvWaiters
    /\ mutexOwner = "none"
    /\ mutexOwner' = "main"
    /\ pc' = "m_unlockFd"
    /\ UNCHANGED <<loopVars, runVars, tpc, cvWaiters, exposedImageFd, importedImageFd,
                   counter, sharedContent, threadPending, publishedContent, shutdownIssued, waitResult>>

\* End of the block: the lock is released.
MainUnlockFd ==
    /\ pc = "m_unlockFd"
    /\ mutexOwner' = "none"
    /\ pc' = "m_readFd"
    /\ UNCHANGED <<loopVars, runVars, tpc, cvWaiters, exposedImageFd, importedImageFd,
                   counter, sharedContent, threadPending, publishedContent, shutdownIssued, waitResult>>

\* int importedImageFd = threadOptions.exposedImageFd;
MainReadFd ==
    /\ pc = "m_readFd"
    /\ importedImageFd' = exposedImageFd
    /\ pc' = "loop"
    /\ UNCHANGED <<loopVars, runVars, tpc, mutexOwner, cvWaiters, exposedImageFd,
                   counter, sharedContent, threadPending, publishedContent, shutdownIssued, waitResult>>

\* std::unique_lock<std::mutex> lock(threadOptions.syncMutex) before the shutdown signal
MainLockShutdown ==
    /\ pc = "m_lockShutdown"
    /\ mutexOwner = "none"
    /\ mutexOwner' = "main"
    /\ pc' = "m_notify"
    /\ UNCHANGED <<loopVars, runVars, tpc, cvWaiters, exposedImageFd, importedImageFd,
                   counter, sharedContent, threadPending, publishedContent, shutdownIssued, waitResult>>

\* notify_one unblocks one of the threads blocked on the condition variable, if
\* there is one; a thread it unblocks out of wait_for gets no_timeout.
NotifyOne ==
    IF cvWaiters = {}
      THEN UNCHANGED <<cvWaiters, waitResult>>
      ELSE \E t \in cvWaiters :
             /\ cvWaiters' = cvWaiters \ {t}
             /\ waitResult' = IF t = "thread" THEN "no_timeout" ELSE waitResult

\* threadOptions.signal.notify_one(), then the lock is released.
MainNotify ==
    /\ pc = "m_notify"
    /\ NotifyOne
    /\ shutdownIssued' = TRUE
    /\ mutexOwner' = "none"
    /\ pc' = "m_join"
    /\ UNCHANGED <<loopVars, runVars, tpc, exposedImageFd, importedImageFd, counter,
                   sharedContent, threadPending, publishedContent>>

\* renderThread.join(); return 0;
MainJoin ==
    /\ pc = "m_join"
    /\ tpc = "t_done"
    /\ pc' = "done"
    /\ UNCHANGED <<loopVars, threadVars, runVars>>

\* ------------------------------------------------------ producer thread
\* T.1 - T.7 are done; the descriptor is published under the mutex:
\* options->exposedImageFd = imageFd; options->signal.notify_one();
ThreadPublish ==
    /\ tpc = "t_setup"
    /\ mutexOwner = "none"
    /\ \E fd \in ExportedFds : exposedImageFd' = fd
    /\ NotifyOne
    /\ publishedContent' = sharedContent
    /\ tpc' = "t_lock"
    /\ UNCHANGED <<pc, loopVars, runVars, mutexOwner, importedImageFd, counter,
                   sharedContent, threadPending, shutdownIssued>>

\* T.8 - T.20 (image view, render pass, pipeline, command buffer, fence), then
\*   std::unique_lock<std::mutex> syncLock(options->syncMutex);
\* and the first options->signal.wait_for(syncLock, 1 s): the mutex is taken,
\* then released by wait_for, and the producer blocks on the condition variable.
ThreadLock ==
    /\ tpc = "t_lock"
    /\ mutexOwner = "none"
    /\ cvWaiters' = cvWaiters \cup {"thread"}
    /\ waitResult' = "none"
    /\ tpc' = "t_blocked"
    /\ UNCHANGED <<pc, loopVars, runVars, mutexOwner, exposedImageFd, importedImageFd,
                   counter, sharedContent, threadPending, publishedContent, shutdownIssued>>

\* The second passes with no notification.
ThreadTimeout ==
    /\ tpc = "t_blocked"
    /\ "thread" \in cvWaiters
    /\ cvWaiters' = cvWaiters \ {"thread"}
    /\ waitResult' = "timeout"
    /\ UNCHANGED <<pc, loopVars, runVars, tpc, mutexOwner, exposedImageFd,
                   importedImageFd, counter, sharedContent, threadPending,
                   publishedContent, shutdownIssued>>

\* A blocked thread is unblocked with no notification and no timeout.
SpuriousWakeup ==
    /\ \E t \in cvWaiters :
         /\ cvWaiters' = cvWaiters \ {t}
         /\ waitResult' = IF t = "thread" THEN "no_timeout" ELSE waitResult
    /\ UNCHANGED <<pc, loopVars, runVars, tpc, mutexOwner, exposedImageFd,
                   importedImageFd, counter, sharedContent, threadPending,
                   publishedContent, shutdownIssued>>

\* while (wait_for(..) == std::cv_status::timeout): the loop goes on after a timeout.
StaysInLoop(r) == r = "timeout"

\* wait_for returned timeout: the producer holds the mutex again and runs the loop
\* body up to the submit. The command buffer is reset and recorded again with
\* vkCmdDraw(.., counter), counter = (counter + 1) % 3, and submitted with the fence.
ThreadRender ==
    /\ tpc = "t_blocked"
    /\ "thread" \notin cvWaiters
    /\ mutexOwner = "none"
    /\ StaysInLoop(waitResult)
    /\ mutexOwner' = "thread"
    /\ threadPending' = counter
    /\ counter' = (counter + 1) % InstanceCount
    /\ tpc' = "t_fencewait"
    /\ UNCHANGED <<pc, loopVars, runVars, cvWaiters, exposedImageFd, importedImageFd,
                   sharedContent, publishedContent, shutdownIssued,
                   waitResult>>

\* The producer's device finishes the submission: the shared image is written.
ThreadComplete ==
    /\ threadPending # NoPending
    /\ sharedContent' = threadPending
    /\ threadPending' = NoPending
    /\ UNCHANGED <<pc, loopVars, runVars, tpc, mutexOwner, cvWaiters, exposedImageFd,
                   importedImageFd, counter, publishedContent, shutdownIssued,
                   waitResult>>

\* vkWaitForFences(threadDevice, 1, &fence, VK_TRUE, -1); vkResetFences(..); the
\* loop condition calls wait_for again, which releases the mutex and blocks.
ThreadFenceWait ==
    /\ tpc = "t_fencewait"
    /\ threadPending = NoPending
    /\ mutexOwner' = "none"
    /\ cvWaiters' = cvWaiters \cup {"thread"}
    /\ waitResult' = "none"
    /\ tpc' = "t_blocked"
    /\ UNCHANGED <<pc, loopVars, runVars, exposedImageFd, importedImageFd, counter,
                   sharedContent, threadPending, publishedContent,
                   shutdownIssued>>

\* wait_for returned no_timeout: the producer holds the mutex again, leaves the
\* loop, writes thread_out.ppm, destroys its objects and returns, which releases
\* syncLock.
\* Faulty variant: the producer resets the published descriptor when it returns.
ThreadExitResetsFd ==
    /\ tpc = "t_blocked"
    /\ "thread" \notin cvWaiters
    /\ mutexOwner = "none"
    /\ ~StaysInLoop(waitResult)
    /\ tpc' = "t_done"
    /\ exposedImageFd' = NoFd
    /\ UNCHANGED <<pc, loopVars, runVars, mutexOwner, cvWaiters,
                   importedImageFd, counter, sharedContent, threadPending,
                   publishedContent, shutdownIssued, waitResult>>

ThreadExit ==
    /\ tpc = "t_blocked"
    /\ "thread" \notin cvWaiters
    /\ mutexOwner = "none"
    /\ ~StaysInLoop(waitResult)
    /\ tpc' = "t_done"
    /\ UNCHANGED <<pc, loopVars, runVars, mutexOwner, cvWaiters, exposedImageFd,
                   importedImageFd, counter, sharedContent, threadPending,
                   publishedContent, shutdownIssued, waitResult>>

MainHandoff ==
    \/ MainLockFd \/ MainCheckFd \/ MainFdWoken \/ MainUnlockFd \/ MainReadFd
    \/ MainLockShutdown \/ MainNotify \/ MainJoin

Producer ==
    \/ ThreadPublish \/ ThreadLock \/ ThreadTimeout \/ ThreadRender
    \/ ThreadComplete \/ ThreadFenceWait \/ ThreadExit

\* ------------------------------------------------------- specifications
Next == FrameLoop \/ MainHandoff \/ Producer \/ SpuriousWakeup

Spec == Init /\ [][Next]_vars

\* ------------------------------------ native calls that do not succeed
\* The loop tests the result of vkQueueSubmit only. The results of the two
\* vkWaitForFences, of vkAcquireNextImageKHR, of vkResetFences and of
\* vkQueuePresentKHR are dropped, so after any of them the loop goes on.

\* vkWaitForFences returns an error: the fence may be unsignaled.
WaitFails ==
    /\ pc = "wait"
    /\ failedCall' = "vkWaitForFences"
    /\ Log("WAIT")
    /\ pc' = "acquire"
    /\ UNCHANGED <<frame, activeSyncIdx, imageIndex, fenceSignaled, swapImagesFences,
                   inflight, imageWritten, image0Content, uniformData, lastSubmit,
                   lastPresent, presentWaits, presentsFollowed, ppm, threadVars, runVars>>

\* vkAcquireNextImageKHR returns an error: imageIndex, a local that is not
\* initialised, keeps whatever it held (here: any index of the swapchain).
AcquireFails ==
    /\ pc = "acquire"
    /\ failedCall' = "vkAcquireNextImageKHR"
    /\ \E k \in Images : imageIndex' = k
    /\ Log("ACQUIRE")
    /\ pc' = "guard"
    /\ UNCHANGED <<frame, activeSyncIdx, fenceSignaled, swapImagesFences, inflight,
                   imageWritten, image0Content, uniformData, lastSubmit, lastPresent, presentWaits, presentsFollowed,
                   ppm, threadVars, runVars>>

\* The vkWaitForFences on the per-image fence returns an error.
GuardFails ==
    /\ pc = "guard"
    /\ swapImagesFences[imageIndex] # NullFence
    /\ failedCall' = "vkWaitForFences"
    /\ swapImagesFences' = [swapImagesFences EXCEPT ![imageIndex] = activeSyncIdx]
    /\ Log("GUARD")
    /\ pc' = "reset"
    /\ UNCHANGED <<frame, activeSyncIdx, imageIndex, fenceSignaled, inflight,
                   imageWritten, image0Content, uniformData, lastSubmit, lastPresent, presentWaits, presentsFollowed,
                   ppm, threadVars, runVars>>

\* vkResetFences returns an error: the fence is left as it was.
ResetFails ==
    /\ pc = "reset"
    /\ failedCall' = "vkResetFences"
    /\ Log("RESET")
    /\ pc' = "submit"
    /\ UNCHANGED <<frame, activeSyncIdx, imageIndex, fenceSignaled, swapImagesFences,
                   inflight, imageWritten, image0Content, uniformData, lastSubmit,
                   lastPresent, presentWaits, presentsFollowed, ppm, threadVars, runVars>>

\* if (vkQueueSubmit(..) != VK_SUCCESS) throw std::runtime_error(..): nothing
\* catches it, the process terminates.
SubmitFails ==
    /\ pc = "submit"
    /\ failedCall' = "vkQueueSubmit"
    /\ Log("SUBMIT")
    /\ pc' = "aborted"
    /\ UNCHANGED <<frame, activeSyncIdx, imageIndex, fenceSignaled, swapImagesFences,
                   inflight, imageWritten, image0Content, uniformData, lastSubmit,
                   lastPresent, presentWaits, presentsFollowed, ppm, threadVars, runVars>>

\* vkQueuePresentKHR returns an error.
PresentFails ==
    /\ pc = "present"
    /\ failedCall' = "vkQueuePresentKHR"
    /\ lastPresent' = PresentInfo
    /\ Log("PRESENT")
    /\ pc' = "advance"
    /\ UNCHANGED <<frame, activeSyncIdx, imageIndex, fenceSignaled, swapImagesFences,
                   inflight, imageWritten, image0Content, uniformData, lastSubmit,
                   presentWaits, presentsFollowed, ppm, threadVars, runVars>>

NativeFailure ==
    \/ WaitFails \/ AcquireFails \/ GuardFails \/ ResetFails \/ SubmitFails
    \/ PresentFails

\* The two programs with the loop and no second thread; native calls may fail.
InitFail ==
    /\ \E ex \in {"glfw", "subpass"} : \E n \in 1 .. MaxImages : StartOfMain(ex, n)
    /\ run = 1
    /\ ppm1 = Undefined
    /\ PartsIdle

NextFail == FrameLoop \/ NativeFailure

FailSpec == InitFail /\ [][NextFail]_vars

\* --------------------------------------------- the same example, run twice
\* The process has ended; the same example is started again with the same
\* environment. The output of the first run is kept for comparison.
Rerun ==
    /\ pc = "done"
    /\ run = 1
    /\ run' = 2
    /\ ppm1' = ppm
    /\ UNCHANGED <<example, numImages, partVars>>
    /\ pc' = StartPc(example)
    /\ frame' = 0
    /\ activeSyncIdx' = 0
    /\ imageIndex' = 0
    /\ fenceSignaled' = [i \in Slots |-> TRUE]
    /\ swapImagesFences' = [k \in Images |-> NullFence]
    /\ inflight' = {}
    /\ imageWritten' = [k \in Images |-> FALSE]
    /\ image0Content' = Undefined
    /\ uniformData' = 0
    /\ steps' = <<>>
    /\ lastSubmit' = NoSubmit
    /\ lastPresent' = NoPresent
    /\ presentWaits' = {}
    /\ presentsFollowed' = presentsFollowed
    /\ failedCall' = "none"
    /\ ppm' = Undefined
    /\ tpc' = StartTpc(example)
    /\ mutexOwner' = "none"
    /\ cvWaiters' = {}
    /\ exposedImageFd' = NoFd
    /\ importedImageFd' = NotRead
    /\ counter' = 0
    /\ sharedContent' = Undefined
    /\ threadPending' = NoPending
    /\ publishedContent' = Undefined
    /\ shutdownIssued' = FALSE
    /\ waitResult' = "none"

NextTwoRuns == Next \/ Rerun

TwoRunSpec == Init /\ [][NextTwoRuns]_vars

\* ------------------------------------------- shutdown of the producer
\* The memory-sharing example with a swapchain of one image. Both threads and
\* both devices keep making progress; a wakeup without notification is possible
\* but nothing promises one.
InitShutdown ==
    /\ StartOfMain("extmem", 1)
    /\ run = 1
    /\ ppm1 = Undefined
    /\ PartsIdle

FairSpec ==
    /\ InitShutdown
    /\ [][Next]_vars
    /\ WF_vars(FrameLoop \/ MainHandoff)
    /\ WF_vars(Producer)

\* --------------------------- the render pass of the subpass example, at one pixel
\* Colours are counted in units of 1/25500, so that the 8-bit texel c (c/255),
\* the threshold 0.01 and the gray 0.1 are all whole numbers.
FloatOne == 25500
\* const vec3 target = vec3(0.01, 0.01, 0.01)
Target == 255
\* color = vec3(0.1, 0.1, 0.1)
Gray == 2550
\* mod(gl_FragCoord.x, 40) < 20
CellPeriod == 40
CellLit == 20

\* An 8-bit normalized attachment stores the nearest c/255 and loads c/255
\* (an sRGB format spaces its steps differently; 0 is stored and loaded as 0).
Quant8(v) == (v + 50) \div 100
Load8(c) == c * 100
StoreTexel(color) == [i \in 1 .. 3 |-> Quant8(color[i])]

Instances == 0 .. (InstanceCount - 1)
Attachments == 0 .. 3
Subpasses == 0 .. 2
AttachmentUnused == 0 - 1
SubpassExternal == 0 - 1

\* VkClearValue clearColor = {0, 0, 0, 1}; alpha is not read by any shader.
ClearColor == <<0, 0, 0>>
\* The texel of an attachment nothing has loaded or written.
NoTexel == <<Undefined, Undefined, Undefined>>
\* What a fragment output the shader did not write may leave in the attachment.
UndefinedTexels == {<<0, 0, 0>>, <<255, 255, 255>>}
\* A fragment output the shader did not write.
Unwritten == <<>>

\* pColorAttachments of each subpass: the attachment of output location l is
\* SubpassColors[sp][l + 1].
SubpassColors ==
    [sp \in Subpasses |->
        CASE sp = 0 -> <<AttachmentUnused, 1, 2>>
          [] sp = 1 -> <<AttachmentUnused, AttachmentUnused, AttachmentUnused, 3>>
          [] OTHER -> <<0>>]

\* pInputAttachments of each subpass.
SubpassInputs ==
    [sp \in Subpasses |-> IF sp = 2 THEN <<1, 2, 3>> ELSE <<>>]

\* subpassDependencies: <<srcSubpass, dstSubpass>>.
SubpassDependencies == {<<1, 2>>, <<0, 2>>, <<SubpassExternal, 2>>}

\* The subpasses of this render pass that must finish before dst starts.
DependsOn(dst) == {d[1] : d \in {e \in SubpassDependencies : e[2] = dst}} \cap Subpasses

\* firstInstance of the vkCmdDraw calls recorded in each subpass, in order.
Draws ==
    [sp \in Subpasses |-> CASE sp = 0 -> <<0, 1>> [] sp = 1 -> <<2>> [] OTHER -> <<0>>]

\* The subpasses whose pipeline writes attachment a.
WritersOf(a) ==
    {sp \in Subpasses : \E l \in 1 .. Len(SubpassColors[sp]) : SubpassColors[sp][l] = a}

\* subpass_0_colorizer.frag: the value of each output location; c is
\* fragColor, of which the instance uses its own component.
Colorizer(instanceId, c) ==
    [loc \in 0 .. 3 |->
        CASE loc = 1 /\ instanceId = 0 -> <<c[1], 0, 0>>
          [] loc = 2 /\ instanceId = 1 -> <<0, c[2], 0>>
          [] loc = 3 /\ instanceId = 2 -> <<0, 0, c[3]>>
          [] OTHER -> Unwritten]

\* int(mod(gl_FragCoord.x, 40) < 20), gl_FragCoord being the pixel centre v + 0.5.
InLitCell(v) == IF (2 * v + 1) % (2 * CellPeriod) < 2 * CellLit THEN 1 ELSE 0

\* Faulty variant: the pattern is striped, the y coordinate is not tested.
ComposeStriped(red, green, blue, x, y) ==
    LET color == <<Load8(red[1]), Load8(green[2]), Load8(blue[3])>>
    IN  IF \E i \in 1 .. 3 : color[i] < Target
        THEN [i \in 1 .. 3 |-> Gray * InLitCell(x)]
        ELSE color

\* subpass_2_compose.frag: outColor.rgb from the texels of the three input
\* attachments at pixel (x, y).
Compose(red, green, blue, x, y) ==
    LET color == <<Load8(red[1]), Load8(green[2]), Load8(blue[3])>>
    IN  IF \E i \in 1 .. 3 : color[i] < Target
        THEN [i \in 1 .. 3 |-> Gray * InLitCell(x) * InLitCell(y)]
        ELSE color

\* The pixels followed: both sides of the cell borders of the pattern.
PixelCoords == {0, 19, 20, 39, 40}
\* fragColor components: 0.0, just below and just above 0.01, and 1.0.
FragValues == {0, 200, 300, FloatOne}

\* subpass_2_compose.vert: the compose draw covers the whole framebuffer.
ComposeCovered(x, y) == x \in PixelCoords /\ y \in PixelCoords

Finished(sp) == progress[sp] = Len(Draws[sp])
CanRun(sp) == ~Finished(sp) /\ \A d \in DependsOn(sp) : Finished(d)

\* Output locations of subpass sp that are bound to an attachment.
BoundLocations(sp) ==
    {l \in 0 .. (Len(SubpassColors[sp]) - 1) : SubpassColors[sp][l + 1] # AttachmentUnused}

\* vkCmdBeginRenderPass: loadOp is CLEAR for the four attachments.
BeginRenderPass ==
    /\ passPc = "begin"
    /\ passPc' = "inside"
    /\ attachments' = [a \in Attachments |-> ClearColor]
    /\ UNCHANGED <<pixel, progress, outColor, accesses, restOfPass>>

\* The next vkCmdDraw of subpass 0 or 1 (colorizer pipeline, colorWriteMask
\* RGBA on every bound attachment) shades the pixel if its triangle covers it.
ColorizerDraw(sp) ==
    /\ passPc = "inside"
    /\ CanRun(sp)
    /\ LET inst == Draws[sp][progress[sp] + 1]
           out == Colorizer(inst, pixel.fragColor)
           LocOf(a) == CHOOSE l \in BoundLocations(sp) : SubpassColors[sp][l + 1] = a
           Bound == {SubpassColors[sp][l + 1] : l \in BoundLocations(sp)}
       IN  IF inst \in pixel.covered
           THEN \E u \in UndefinedTexels :
                /\ attachments' =
                       [a \in Attachments |->
                           IF a \in Bound
                           THEN IF out[LocOf(a)] = Unwritten
                                THEN u
                                ELSE StoreTexel(out[LocOf(a)])
                           ELSE attachments[a]]
                /\ accesses' = accesses \cup
                       {[kind |-> "write", subpass |-> sp, instance |-> inst,
                         attachment |-> a, early |-> FALSE] : a \in Bound}
           ELSE UNCHANGED <<attachments, accesses>>
    /\ progress' = [progress EXCEPT ![sp] = @ + 1]
    /\ UNCHANGED <<passPc, pixel, outColor, restOfPass>>

\* The vkCmdDraw of subpass 2 (compose pipeline): subpassLoad of the three
\* input attachments, outColor to attachment 0.
ComposeDraw ==
    /\ passPc = "inside"
    /\ CanRun(2)
    /\ ComposeCovered(pixel.x, pixel.y)
    /\ LET color == Compose(attachments[SubpassInputs[2][1]],
                            attachments[SubpassInputs[2][2]],
                            attachments[SubpassInputs[2][3]], pixel.x, pixel.y)
       IN  /\ outColor' = color
           /\ attachments' = [attachments EXCEPT ![SubpassColors[2][1]] = StoreTexel(color)]
    /\ accesses' = accesses
           \cup {[kind |-> "read", subpass |-> 2, instance |-> Draws[2][1],
                  attachment |-> SubpassInputs[2][i],
                  early |-> \E w \in WritersOf(SubpassInputs[2][i]) : ~Finished(w)]
                 : i \in 1 .. Len(SubpassInputs[2])}
           \cup {[kind |-> "write", subpass |-> 2, instance |-> Draws[2][1],
                  attachment |-> SubpassColors[2][1], early |-> FALSE]}
    /\ progress' = [progress EXCEPT ![2] = @ + 1]
    /\ UNCHANGED <<passPc, pixel, restOfPass>>

\* vkCmdEndRenderPass, once the device has executed the three subpasses.
EndRenderPass ==
    /\ passPc = "inside"
    /\ \A sp \in Subpasses : Finished(sp)
    /\ passPc' = "ended"
    /\ UNCHANGED <<pixel, attachments, progress, outColor, accesses, restOfPass>>

\* One execution of the recorded render pass, followed at one pixel: any
\* pixel, any set of colorizer triangles covering it, any interpolated colour.
InitPass ==
    /\ StartOfMain("subpass", 1)
    /\ run = 1
    /\ ppm1 = Undefined
    /\ OnlyPart("pass")
    /\ passPc = "begin"
    /\ pixel \in [x : PixelCoords, y : PixelCoords, covered : SUBSET Instances,
                  fragColor : [1 .. 3 -> FragValues]]
    /\ attachments = [a \in Attachments |-> NoTexel]
    /\ progress = [sp \in Subpasses |-> 0]
    /\ outColor = NoTexel
    /\ accesses = {}

NextPass ==
    \/ BeginRenderPass
    \/ \E sp \in {0, 1} : ColorizerDraw(sp)
    \/ ComposeDraw
    \/ EndRenderPass

PassSpec == InitPass /\ [][NextPass]_vars

\* ------------------ the memory-sharing example: blit and readback, one pixel row
\* importedImageWidth; 256 in the program, a short row here.
SrcWidth == 2
\* Largest swapExtent.width the surface may report.
MaxDstWidth == 4

\* 8-bit channel values of the producer's image.
ChannelValues == {0, 128, 255}
\* The format of the swapchain images: B8G8R8A8_SRGB when the surface offers
\* it; otherwise surfaceFormat is left as it is and may name any format.
SurfaceFormats == {"B8G8R8A8_SRGB", "B8G8R8A8_UNORM"}

\* Linear value c/255 to the nearest 8-bit sRGB code.
SrgbEncodeTable == <<
    0, 13, 22, 28, 34, 38, 42, 46, 50, 53, 56, 59, 61, 64, 66, 69,
    71, 73, 75, 77, 79, 81, 83, 85, 86, 88, 90, 92, 93, 95, 96, 98,
    99, 101, 102, 104, 105, 106, 108, 109, 110, 112, 113, 114, 115, 117, 118, 119,
    120, 121, 122, 124, 125, 126, 127, 128, 129, 130, 131, 132, 133, 134, 135, 136,
    137, 138, 139, 140, 141, 142, 143, 144, 145, 146, 147, 148, 148, 149, 150, 151,
    152, 153, 154, 155, 155, 156, 157, 158, 159, 159, 160, 161, 162, 163, 163, 164,
    165, 166, 167, 167, 168, 169, 170, 170, 171, 172, 173, 173, 174, 175, 175, 176,
    177, 178, 178, 179, 180, 180, 181, 182, 182, 183, 184, 185, 185, 186, 187, 187,
    188, 189, 189, 190, 190, 191, 192, 192, 193, 194, 194, 195, 196, 196, 197, 197,
    198, 199, 199, 200, 200, 201, 202, 202, 203, 203, 204, 205, 205, 206, 206, 207,
    208, 208, 209, 209, 210, 210, 211, 212, 212, 213, 213, 214, 214, 215, 215, 216,
    216, 217, 218, 218, 219, 219, 220, 220, 221, 221, 222, 222, 223, 223, 224, 224,
    225, 226, 226, 227, 227, 228, 228, 229, 229, 230, 230, 231, 231, 232, 232, 233,
    233, 234, 234, 235, 235, 236, 236, 237, 237, 238, 238, 238, 239, 239, 240, 240,
    241, 241, 242, 242, 243, 243, 244, 244, 245, 245, 246, 246, 246, 247, 247, 248,
    248, 249, 249, 250, 250, 251, 251, 251, 252, 252, 253, 253, 254, 254, 255, 255>>
SrgbEncode(c) == SrgbEncodeTable[c + 1]

ClampIndex(k, w) == IF k < 0 THEN 0 ELSE IF k > w - 1 THEN w - 1 ELSE k

\* VK_FILTER_LINEAR, clamped to the edge: channel ch of destination texel i
\* (0-based) of a row of dw texels stretched from the row of sw texels.
LinearSample(row, sw, dw, i, ch) ==
    LET num == (2 * i + 1) * sw - dw
        den == 2 * dw
        i0 == IF num < 0 THEN 0 - 1 ELSE num \div den
        fn == IF num < 0 THEN num + den ELSE num % den
        a == row[ClampIndex(i0, sw) + 1][ch]
        b == row[ClampIndex(i0 + 1, sw) + 1][ch]
    IN  ((den - fn) * a + fn * b + dw) \div den

\* The bytes of a texel <<r, g, b>> in memory, alpha left out.
TexelBytes(t, format) ==
    IF format = "R8G8B8A8_UNORM" THEN t ELSE <<t[3], t[2], t[1]>>

\* vkCmdBlitImage(importedImage -> swapImages[idx], VK_FILTER_LINEAR): the
\* whole source row to the whole destination row, converted to the format.
BlitRow(row, sw, dw, format) ==
    [i \in 1 .. dw |->
        [ch \in 1 .. 3 |->
            IF format = "B8G8R8A8_SRGB"
            THEN SrgbEncode(LinearSample(row, sw, dw, i - 1, ch))
            ELSE LinearSample(row, sw, dw, i - 1, ch)]]

\* CopyImageToLinearImage then the pixel loop of the PPM writer: vkCmdCopyImage
\* copies the bytes of w texels as they are, the writer takes the first three
\* bytes of each.
DumpRow(row, w, format) == [i \in 1 .. w |-> TexelBytes(row[i], format)]

\* Submission of the blit command buffer of swapImages[0] executes.
BlitToSwap ==
    /\ blitPc = "blit"
    /\ blitPc' = "readback"
    /\ swapRow' = BlitRow(srcRow, SrcWidth, dstWidth, dstFormat)
    /\ UNCHANGED <<srcRow, dstWidth, dstFormat, mainPpm, threadPpm, restOfBlit>>

\* main: readback of swapImages[0] (renderImageWidth = swapExtent.width) to out.ppm.
MainDump ==
    /\ blitPc = "readback"
    /\ blitPc' = "threadDump"
    /\ mainPpm' = DumpRow(swapRow, dstWidth, dstFormat)
    /\ UNCHANGED <<srcRow, dstWidth, dstFormat, swapRow, threadPpm, restOfBlit>>

\* producer: readback of renderImage (256 wide, R8G8B8A8_UNORM) to thread_out.ppm.
ThreadDump ==
    /\ blitPc = "threadDump"
    /\ blitPc' = "done"
    /\ threadPpm' = DumpRow(srcRow, SrcWidth, "R8G8B8A8_UNORM")
    /\ UNCHANGED <<srcRow, dstWidth, dstFormat, swapRow, mainPpm, restOfBlit>>

\* The producer has rendered some image and renders nothing else until the end;
\* the surface reports some extent and format.
InitBlit ==
    /\ StartOfMain("extmem", 1)
    /\ run = 1
    /\ ppm1 = Undefined
    /\ OnlyPart("blit")
    /\ blitPc = "blit"
    /\ srcRow \in [1 .. SrcWidth -> [1 .. 3 -> ChannelValues]]
    /\ dstWidth \in 1 .. MaxDstWidth
    /\ dstFormat \in SurfaceFormats
    /\ swapRow = <<>>
    /\ mainPpm = <<>>
    /\ threadPpm = <<>>

NextBlit == BlitToSwap \/ MainDump \/ ThreadDump

BlitSpec == InitBlit /\ [][NextBlit]_vars

\* ------------------------- the subpass example: native objects, created and destroyed
\* The three intermediate attachment images: extraColorImages[3].
ExtraColorImageCount == 3
\* pipeSubpass0, pipeSubpass1, pipeSubpass2.
PipelineCount == 3

One(op, name) == <<[op |-> op, obj |-> <<name, 0>>]>>
Each(op, name, cnt) == [i \in 1 .. cnt |-> [op |-> op, obj |-> <<name, i - 1>>]]

\* main up to the loop, with a swapchain of n images: the objects in the order
\* they are created.
SetupCalls(n) ==
    One("create", "glfw") \o One("create", "window") \o One("create", "instance")
    \o One("create", "surface") \o One("create", "device") \o One("create", "swapchain")
    \o Each("create", "swapImageView", n)
    \o Each("create", "extraColorImage.image", ExtraColorImageCount)
    \o Each("create", "extraColorImage.memory", ExtraColorImageCount)
    \o Each("create", "extraColorImage.view", ExtraColorImageCount)
    \o One("create", "vertexBuffer") \o One("create", "vertexBufferMemory")
    \o One("create", "renderPass")
    \o One("create", "shaderColorizerVert") \o One("create", "shaderColorizerFrag")
    \o One("create", "shaderComposeVert") \o One("create", "shaderComposeFrag")
    \o One("create", "descriptorSetLayout") \o One("create", "descriptorPool")
    \o One("create", "descriptorSet")
    \o One("create", "uniformBuffer") \o One("create", "uniformBufferMemory")
    \o Each("create", "pipe.layout", PipelineCount)
    \o Each("create", "pipe.cache", PipelineCount)
    \o Each("create", "pipe.pipeline", PipelineCount)
    \o Each("create", "framebuffer", n)
    \o One("create", "cmdPool") \o Each("create", "cmdBuffer", n)
    \o Each("create", "imageAvailableSemaphore", imagesInFlight)
    \o Each("create", "renderFinishedSemaphore", imagesInFlight)
    \o Each("create", "activeFence", imagesInFlight)

\* CopyImageToLinearImage and the end of the readback block of main.
ReadbackCalls ==
    One("create", "readableImage") \o One("create", "readableImageMemory")
    \o One("create", "readbackCmdBuffer") \o One("create", "readbackFence")
    \o One("destroy", "readbackFence") \o One("destroy", "readbackCmdBuffer")
    \o One("destroy", "readableImageMemory") \o One("destroy", "readableImage")

\* main after the readback: the objects in the order they are destroyed.
\* vkResetDescriptorPool returns the descriptor set to its pool.
CleanupCalls(n) ==
    Each("destroy", "imageAvailableSemaphore", imagesInFlight)
    \o Each("destroy", "renderFinishedSemaphore", imagesInFlight)
    \o Each("destroy", "activeFence", imagesInFlight)
    \o Each("destroy", "cmdBuffer", n) \o One("destroy", "cmdPool")
    \o Each("destroy", "framebuffer", n)
    \o Each("destroy", "pipe.pipeline", PipelineCount)
    \o One("destroy", "shaderColorizerVert") \o One("destroy", "shaderColorizerFrag")
    \o One("destroy", "shaderComposeVert") \o One("destroy", "shaderComposeFrag")
    \o Each("destroy", "pipe.layout", PipelineCount)
    \o Each("destroy", "pipe.cache", PipelineCount)
    \o One("destroy", "uniformBufferMemory") \o One("destroy", "uniformBuffer")
    \o One("destroy", "descriptorSet") \o One("destroy", "descriptorPool")
    \o One("destroy", "descriptorSetLayout") \o One("destroy", "renderPass")
    \o One("destroy", "vertexBufferMemory") \o One("destroy", "vertexBuffer")
    \o Each("destroy", "swapImageView", n)
    \o One("destroy", "swapchain") \o One("destroy", "device")
    \o One("destroy", "surface") \o One("destroy", "instance")
    \o One("destroy", "window") \o One("destroy", "glfw")

\* The create and destroy calls of a run in which every call succeeds.
NativeCalls(n) == SetupCalls(n) \o ReadbackCalls \o CleanupCalls(n)

NextCall == NativeCalls(resImages)[resStep + 1]

\* The next call of main creates (or allocates) an object.
CreateObject ==
    /\ resPc = "running"
    /\ resStep < Len(NativeCalls(resImages))
    /\ NextCall.op = "create"
    /\ created' = created \cup {NextCall.obj}
    /\ resStep' = resStep + 1
    /\ UNCHANGED <<resPc, resImages, destroyed, destroyedAgain, restOfRes>>

\* The next call of main destroys (or frees) an object.
DestroyObject ==
    /\ resPc = "running"
    /\ resStep < Len(NativeCalls(resImages))
    /\ NextCall.op = "destroy"
    /\ destroyed' = destroyed \cup {NextCall.obj}
    /\ destroyedAgain' = destroyedAgain \cup ({NextCall.obj} \cap destroyed)
    /\ resStep' = resStep + 1
    /\ UNCHANGED <<resPc, resImages, created, restOfRes>>

\* return 0
ReturnFromMain ==
    /\ resPc = "running"
    /\ resStep = Len(NativeCalls(resImages))
    /\ resPc' = "returned"
    /\ UNCHANGED <<resStep, resImages, created, destroyed, destroyedAgain, restOfRes>>

InitRes ==
    /\ \E n \in 1 .. MaxImages : StartOfMain("subpass", n) /\ resImages = n
    /\ run = 1
    /\ ppm1 = Undefined
    /\ OnlyPart("res")
    /\ resPc = "running"
    /\ resStep = 0
    /\ created = {}
    /\ destroyed = {}
    /\ destroyedAgain = {}

NextRes == CreateObject \/ DestroyObject \/ ReturnFromMain

ResSpec == InitRes /\ [][NextRes]_vars

\* ---------------------- fallible calls of a program and what it does when one fails
Call(name, kind, phase, checked) ==
    <<[name |-> name, kind |-> kind, phase |-> phase, checked |-> checked]>>

\* CreateVulkan2DImage of the compute example.
CreateVulkan2DImageCalls(img) ==
    Call(img \o ".vkCreateImage", "native", "setup", TRUE)
    \o Call(img \o ".vkAllocateMemory", "native", "setup", TRUE)
    \o Call(img \o ".vkBindImageMemory", "native", "setup", FALSE)
    \o Call(img \o ".vkCreateImageView", "native", "setup", TRUE)

\* DumpImage of the compute example: nothing is tested, neither the result of
\* vkMapMemory nor the state of the stream.
DumpImageCalls(img) ==
    Call(img \o ".vkMapMemory", "native", "output", FALSE)
    \o Call(img \o ".open", "file", "output", FALSE)
    \o Call(img \o ".write", "file", "output", FALSE)

\* main of the compute example, in source order.
ComputeCalls ==
    Call("vkCreateInstance", "native", "setup", TRUE)
    \o Call("vkEnumeratePhysicalDevices", "native", "setup", TRUE)
    \o Call("vkCreateDevice", "native", "setup", TRUE)
    \o CreateVulkan2DImageCalls("sourceImage")
    \o CreateVulkan2DImageCalls("destinationImage")
    \o Call("vkMapMemory", "native", "setup", FALSE)
    \o Call("LoadSPIRV", "shader", "setup", TRUE)
    \o Call("vkCreateShaderModule", "native", "setup", TRUE)
    \o Call("vkCreateDescriptorSetLayout", "native", "setup", TRUE)
    \o Call("vkCreatePipelineLayout", "native", "setup", TRUE)
    \o Call("vkCreateComputePipelines", "native", "setup", TRUE)
    \o Call("vkCreateDescriptorPool", "native", "setup", TRUE)
    \o Call("vkAllocateDescriptorSets", "native", "setup", FALSE)
    \o Call("vkCreateCommandPool", "native", "setup", TRUE)
    \o Call("vkAllocateCommandBuffers", "native", "setup", TRUE)
    \o Call("vkBeginCommandBuffer", "native", "setup", TRUE)
    \o Call("vkEndCommandBuffer", "native", "setup", TRUE)
    \o Call("vkCreateFence", "native", "setup", TRUE)
    \o Call("vkQueueSubmit", "native", "run", TRUE)
    \o Call("vkWaitForFences", "native", "run", TRUE)
    \o DumpImageCalls("src.ppm")
    \o DumpImageCalls("out.ppm")

\* main of the GLFW triangle example after its loop: CopyImageToLinearImage,
\* then the PPM writer.
GlfwOutputCalls ==
    Call("vkCreateImage", "native", "output", TRUE)
    \o Call("vkAllocateMemory", "native", "output", TRUE)
    \o Call("vkBindImageMemory", "native", "output", FALSE)
    \o Call("vkAllocateCommandBuffers", "native", "output", TRUE)
    \o Call("vkBeginCommandBuffer", "native", "output", TRUE)
    \o Call("vkEndCommandBuffer", "native", "output", TRUE)
    \o Call("vkCreateFence", "native", "output", TRUE)
    \o Call("vkQueueSubmit", "native", "output", TRUE)
    \o Call("vkWaitForFences", "native", "output", TRUE)
    \o Call("vkMapMemory", "native", "output", FALSE)
    \o Call("out.ppm.open", "file", "output", FALSE)
    \o Call("out.ppm.write", "file", "output", FALSE)

Programs == {"compute", "glfw"}
CallsOf(prog) == IF prog = "compute" THEN ComputeCalls ELSE GlfwOutputCalls

\* if (call(..) != VK_SUCCESS) throw ..: the result of the call is tested.
ResultChecked(c) == c.checked

CurrentCall == CallsOf(callProg)[callStep + 1]

\* The next call returns success.
CallSucceeds ==
    /\ exitState = "running"
    /\ callStep < Len(CallsOf(callProg))
    /\ callStep' = callStep + 1
    /\ UNCHANGED <<callProg, callFailed, exitState, restOfCall>>

\* The next call fails and the program throws; nothing catches the exception.
CallFailsAndThrows ==
    /\ exitState = "running"
    /\ callStep < Len(CallsOf(callProg))
    /\ ResultChecked(CurrentCall)
    /\ callFailed' = callFailed \cup {callStep + 1}
    /\ exitState' = "terminated"
    /\ UNCHANGED <<callProg, callStep, restOfCall>>

\* The next call fails and the program goes on to the call after it.
CallFailsUnnoticed ==
    /\ exitState = "running"
    /\ callStep < Len(CallsOf(callProg))
    /\ ~ResultChecked(CurrentCall)
    /\ callFailed' = callFailed \cup {callStep + 1}
    /\ callStep' = callStep + 1
    /\ UNCHANGED <<callProg, exitState, restOfCall>>

\* return 0
ReturnZero ==
    /\ exitState = "running"
    /\ callStep = Len(CallsOf(callProg))
    /\ exitState' = "returned0"
    /\ UNCHANGED <<callProg, callStep, callFailed, restOfCall>>

InitCall ==
    /\ StartOfMain("glfw", 1)
    /\ run = 1
    /\ ppm1 = Undefined
    /\ OnlyPart("call")
    /\ callProg \in Programs
    /\ callStep = 0
    /\ callFailed = {}
    /\ exitState = "running"

NextCallStep == CallSucceeds \/ CallFailsAndThrows \/ CallFailsUnnoticed \/ ReturnZero

CallSpec == InitCall /\ [][NextCallStep]_vars

\* ----------------------------------------------- the PPM writer of the examples
\* The examples that render a triangle and dump it.
TriangleExamples == {"vktriangle", "glfw", "subpass", "extmem"}
\* uint32_t renderImageWidth = 256 (vktriangle); the others take swapExtent,
\* which is the window size or whatever extent the surface reports.
FixedRenderSize == 256
SurfaceExtents == {1, 9, 10, 256, 512, 1024}
RenderSizes(ex) == IF ex = "vktriangle" THEN {FixedRenderSize} ELSE SurfaceExtents

DigitChars == <<"0", "1", "2", "3", "4", "5", "6", "7", "8", "9">>
NewLine == "\n"

\* operator<< of an unsigned integer: decimal digits, most significant first.
RECURSIVE FormatDecimal(_)
FormatDecimal(n) ==
    IF n < 10
    THEN <<DigitChars[n + 1]>>
    ELSE FormatDecimal(n \div 10) \o <<DigitChars[(n % 10) + 1]>>

\* Faulty variant: the height is written before the width.
HeaderHeightFirst(w, h) ==
    <<"P", "6", NewLine>> \o FormatDecimal(h) \o <<NewLine>>
    \o FormatDecimal(w) \o <<NewLine>> \o FormatDecimal(255) \o <<NewLine>>

\* file << "P6\n" << renderImageWidth << "\n" << renderImageHeight << "\n" << 255 << "\n"
PpmHeader(w, h) ==
    <<"P", "6", NewLine>> \o FormatDecimal(w) \o <<NewLine>>
    \o FormatDecimal(h) \o <<NewLine>> \o FormatDecimal(255) \o <<NewLine>>

\* std::ofstream file(outputFileName, std::ios::out | std::ios::binary)
OpenFile ==
    /\ ppmPc = "open"
    /\ ppmPc' = "header"
    /\ fileBytes' = <<>>
    /\ UNCHANGED <<ppmExample, renderWidth, renderHeight, restOfPpm>>

WriteHeader ==
    /\ ppmPc = "header"
    /\ ppmPc' = "pixels"
    /\ fileBytes' = fileBytes \o PpmHeader(renderWidth, renderHeight)
    /\ UNCHANGED <<ppmExample, renderWidth, renderHeight, restOfPpm>>

\* file.close()
CloseFile ==
    /\ ppmPc = "pixels"
    /\ ppmPc' = "closed"
    /\ UNCHANGED <<ppmExample, renderWidth, renderHeight, fileBytes, restOfPpm>>

\* One of the triangle examples has rendered and opens its output file, which
\* can be opened and written.
InitPpm ==
    /\ StartOfMain("glfw", 1)
    /\ run = 1
    /\ ppm1 = Undefined
    /\ OnlyPart("ppm")
    /\ ppmPc = "open"
    /\ ppmExample \in TriangleExamples
    /\ renderWidth \in RenderSizes(ppmExample)
    /\ renderHeight \in RenderSizes(ppmExample)
    /\ fileBytes = <<>>

NextPpm == OpenFile \/ WriteHeader \/ CloseFile

PpmSpec == InitPpm /\ [][NextPpm]_vars

\* ------------------------------------------ the pixel loop of the PPM writer
\* The loop that follows the header (WriteHeader) and precedes file.close()
\* (CloseFile); it is followed on small images.
MaxWidth == 2
MaxHeight == 2
MaxPadding == 4
\* As the image format is R8G8B8A8 one "pixel" size is 4 bytes (uint32_t).
PixelSize == 4
\* Only copy the RGB values (3).
CopiedBytes == 3
\* Two contents of the mapped memory; every byte of a row differs from its
\* neighbours and from the byte at the same place of the next row.
MemoryPatterns == {7, 11}
MappedBytes(size, pattern) == [i \in 1 .. size |-> ((i - 1) * pattern + 3) % 256]

\* Faulty variant: the rows are taken to be tightly packed.
PackedRowAdvance(data, pitch, width) == data + PixelSize * width

\* data += subResourceLayout.rowPitch
RowAdvance(data, pitch, width) == data + pitch

\* for (uint32_t y = 0; y < height; y++) { uint32_t *row = (uint32_t*)data;
RowBegin ==
    /\ dumpPc = "row"
    /\ dumpY < dumpHeight
    /\ rowPtr' = dataPtr
    /\ dumpX' = 0
    /\ dumpPc' = "pixel"
    /\ UNCHANGED <<dumpWidth, dumpHeight, rowPitch, mapped, dataPtr, dumpY,
                   pixelBytes, readOffsets, restOfDump>>

\* for (uint32_t x = 0; x < width; x++) { file.write((const char*)row, 3); row++; }
WritePixel ==
    /\ dumpPc = "pixel"
    /\ dumpX < dumpWidth
    /\ pixelBytes' = pixelBytes \o [k \in 1 .. CopiedBytes |-> mapped[rowPtr + k]]
    /\ readOffsets' = readOffsets \cup {rowPtr + k - 1 : k \in 1 .. CopiedBytes}
    /\ rowPtr' = rowPtr + PixelSize
    /\ dumpX' = dumpX + 1
    /\ UNCHANGED <<dumpPc, dumpWidth, dumpHeight, rowPitch, mapped, dataPtr, dumpY,
                   restOfDump>>

\* End of the inner loop: data += subResourceLayout.rowPitch; y++.
RowEnd ==
    /\ dumpPc = "pixel"
    /\ dumpX >= dumpWidth
    /\ dataPtr' = RowAdvance(dataPtr, rowPitch, dumpWidth)
    /\ dumpY' = dumpY + 1
    /\ dumpPc' = "row"
    /\ UNCHANGED <<dumpWidth, dumpHeight, rowPitch, mapped, rowPtr, dumpX,
                   pixelBytes, readOffsets, restOfDump>>

\* End of the outer loop: file.close().
PixelsDone ==
    /\ dumpPc = "row"
    /\ dumpY >= dumpHeight
    /\ dumpPc' = "closed"
    /\ UNCHANGED <<dumpWidth, dumpHeight, rowPitch, mapped, dataPtr, rowPtr, dumpX,
                   dumpY, pixelBytes, readOffsets, restOfDump>>

\* The header is written; the image is mapped, its rows rowPitch bytes apart,
\* rowPitch being at least the bytes of a row of pixels.
InitDump ==
    /\ StartOfMain("glfw", 1)
    /\ run = 1
    /\ ppm1 = Undefined
    /\ OnlyPart("dump")
    /\ dumpPc = "row"
    /\ dumpWidth \in 1 .. MaxWidth
    /\ dumpHeight \in 1 .. MaxHeight
    /\ rowPitch \in (PixelSize * dumpWidth) .. (PixelSize * dumpWidth + MaxPadding)
    /\ \E pattern \in MemoryPatterns :
           mapped = MappedBytes(dumpHeight * rowPitch, pattern)
    /\ dataPtr = 0
    /\ rowPtr = 0
    /\ dumpX = 0
    /\ dumpY = 0
    /\ pixelBytes = <<>>
    /\ readOffsets = {}

NextDump == RowBegin \/ WritePixel \/ RowEnd \/ PixelsDone

DumpSpec == InitDump /\ [][NextDump]_vars

\* -------------------------------------------------------------------- LoadSPIRV
MaxFileSize == 8
\* Bytes below 128, so that the value of a word stays below 2^31.
FileByteValues == {1, 127}
ByteOrders == {"little", "big"}
\* sizeof(uint32_t)
WordSize == 4

RECURSIVE FilesOfLength(_)
FilesOfLength(n) ==
    IF n = 0 THEN {<<>>}
    ELSE {f \o <<b>> : f \in FilesOfLength(n - 1), b \in FileByteValues}

\* The value of the 32-bit word whose bytes in memory are b, and back.
WordOfBytes(b, order) ==
    IF order = "little"
    THEN b[1] + 256 * b[2] + 65536 * b[3] + 16777216 * b[4]
    ELSE b[4] + 256 * b[3] + 65536 * b[2] + 16777216 * b[1]
BytesOfWord(w, order) ==
    LET le == <<w % 256, (w \div 256) % 256, (w \div 65536) % 256, (w \div 16777216) % 256>>
    IN  IF order = "little" THEN le ELSE <<le[4], le[3], le[2], le[1]>>

\* Faulty variant: the buffer gets one word per byte of the file.
WordCountPerByte(size) == size

\* fileSize / sizeof(uint32_t)
WordCount(size) == size \div WordSize

\* std::ifstream file(name, ate | binary); if (!file.is_open()) throw
OpenShader ==
    /\ spvPc = "open"
    /\ IF spvExists
       THEN spvPc' = "tellg" /\ UNCHANGED spvResult
       ELSE spvPc' = "done" /\ spvResult' = "threw: failed to open file"
    /\ UNCHANGED <<spvExists, spvFile, spvOrder, fileSize, buffer, restOfSpv>>

\* size_t fileSize = (size_t) file.tellg(); the stream was opened at its end.
TellSize ==
    /\ spvPc = "tellg"
    /\ fileSize' = Len(spvFile)
    /\ spvPc' = "check"
    /\ UNCHANGED <<spvExists, spvFile, spvOrder, buffer, spvResult, restOfSpv>>

\* if ((fileSize % sizeof(uint32_t)) != 0) throw; std::vector<uint32_t> buffer(..)
CheckSize ==
    /\ spvPc = "check"
    /\ IF fileSize % WordSize # 0
       THEN /\ spvPc' = "done"
            /\ spvResult' = "threw: spirv file is not divisable by 4"
            /\ UNCHANGED buffer
       ELSE /\ spvPc' = "read"
            /\ buffer' = [k \in 1 .. WordCount(fileSize) |-> 0]
            /\ UNCHANGED spvResult
    /\ UNCHANGED <<spvExists, spvFile, spvOrder, fileSize, restOfSpv>>

\* file.seekg(0); file.read((char*)buffer.data(), fileSize); file.close(); return
\* buffer. The file is as long as tellg said, so the read delivers fileSize bytes.
ReadWords ==
    /\ spvPc = "read"
    /\ buffer' = [k \in 1 .. Len(buffer) |->
                     IF WordSize * k <= fileSize
                     THEN WordOfBytes(SubSeq(spvFile, WordSize * (k - 1) + 1, WordSize * k),
                                      spvOrder)
                     ELSE buffer[k]]
    /\ spvPc' = "done"
    /\ spvResult' = "returned"
    /\ UNCHANGED <<spvExists, spvFile, spvOrder, fileSize, restOfSpv>>

InitSpv ==
    /\ StartOfMain("glfw", 1)
    /\ run = 1
    /\ ppm1 = Undefined
    /\ OnlyPart("spv")
    /\ spvPc = "open"
    /\ spvExists \in BOOLEAN
    /\ \E n \in 0 .. MaxFileSize : spvFile \in FilesOfLength(n)
    /\ spvExists = FALSE => spvFile = <<>>
    /\ spvOrder \in ByteOrders
    /\ fileSize = 0
    /\ buffer = <<>>
    /\ spvResult = "none"

NextSpv == OpenShader \/ TellSize \/ CheckSize \/ ReadWords

SpvSpec == InitSpv /\ [][NextSpv]_vars

\* -------------------------------- the loop with its present requests followed
\* The two examples whose loop is the plain draw-and-present loop.
LoopExamples == {"glfw", "subpass"}

InitSem ==
    /\ \E ex \in LoopExamples : \E n \in 1 .. MaxImages : StartOfRun(ex, n, TRUE)
    /\ run = 1
    /\ ppm1 = Undefined
    /\ PartsIdle

NextSem == FrameLoop \/ PresentDone

SemSpec == InitSem /\ [][NextSem]_vars

\* The fence f is signaled or is the fence of a submission that has been issued
\* and not completed.
FenceWillSignal(f) == fenceSignaled[f] \/ \E s \in inflight : s.fence = f

\* The loop alone; every issued submission completes, vkAcquireNextImageKHR
\* returns an image, and the host goes on whenever its call can return.
InitLoop ==
    /\ \E ex \in LoopExamples : \E n \in 1 .. MaxImages : StartOfMain(ex, n)
    /\ run = 1
    /\ ppm1 = Undefined
    /\ PartsIdle

LoopFairSpec ==
    /\ InitLoop
    /\ [][FrameLoop]_vars
    /\ WF_vars(Complete)
    /\ WF_vars(Wait)
    /\ WF_vars(Acquire)
    /\ WF_vars(Guard)
    /\ WF_vars(Reset)
    /\ WF_vars(Submit)
    /\ WF_vars(Present)
    /\ WF_vars(Advance)

\* ------------------------------------------ what the submissions in flight share
\* Frame submissions in flight whose command buffer reads the uniform buffer:
\* every command buffer of the subpass example binds the one descriptor set.
UniformReaders == IF example = "subpass" THEN inflight ELSE {}

\* framebufferInfo.pAttachments[1..3] = extraColorImages[0..2].view, the same
\* views in the framebuffer of every swapchain image.
IntermediateAttachments == {1, 2, 3}

\* The subpasses that write an intermediate attachment and that no dependency
\* from VK_SUBPASS_EXTERNAL orders after the commands submitted before.
UnorderedIntermediateWriters ==
    {sp \in Subpasses :
        /\ \E a \in IntermediateAttachments : sp \in WritersOf(a)
        /\ <<SubpassExternal, sp>> \notin SubpassDependencies}

\* Pairs of frame submissions in flight together, the earlier one first.
InFlightTogether == {p \in inflight \X inflight : p[1].id < p[2].id}

\* Frame submissions in flight whose command buffer blits from the imported image.
SharedImageReaders == IF example = "extmem" THEN inflight ELSE {}

\* A producer submission that renders into the exported image is in flight.
SharedImageWriterActive == threadPending # NoPending

\* -------------------------------------------------------------- FindQueueFamily
MaxFamilies == 3
\* UINT32_MAX, the index returned when no family was chosen; no index of a
\* family equals it.
Uint32Max == 0 - 1
QueueFamilyKinds == [graphics : BOOLEAN, present : BOOLEAN]

RECURSIVE FamilyLists(_)
FamilyLists(n) ==
    IF n = 0 THEN {<<>>}
    ELSE {l \o <<f>> : l \in FamilyLists(n - 1), f \in QueueFamilyKinds}

\* if (hasIdx != nullptr) *hasIdx = false; fetch the families; queueFamilyIdx = 0
QfEnter ==
    /\ qfPc = "enter"
    /\ hasIdx' = FALSE
    /\ queueFamilyIdx' = 0
    /\ qfPc' = "loop"
    /\ UNCHANGED <<queueFamilies, surfaceGiven, qfResult, restOfQf>>

\* One turn of the loop over the families: a family with the graphics bit sets
\* *hasIdx and is returned if no surface is given or it can present to the
\* surface; otherwise the next family is looked at.
QfVisit ==
    /\ qfPc = "loop"
    /\ queueFamilyIdx < Len(queueFamilies)
    /\ LET queueFamily == queueFamilies[queueFamilyIdx + 1]
       IN  IF queueFamily.graphics
           THEN /\ hasIdx' = TRUE
                /\ IF surfaceGiven => queueFamily.present
                   THEN /\ qfResult' = queueFamilyIdx
                        /\ qfPc' = "returned"
                        /\ UNCHANGED queueFamilyIdx
                   ELSE /\ queueFamilyIdx' = queueFamilyIdx + 1
                        /\ UNCHANGED <<qfResult, qfPc>>
           ELSE /\ queueFamilyIdx' = queueFamilyIdx + 1
                /\ UNCHANGED <<hasIdx, qfResult, qfPc>>
    /\ UNCHANGED <<queueFamilies, surfaceGiven, restOfQf>>

\* return UINT32_MAX
QfNoneLeft ==
    /\ qfPc = "loop"
    /\ queueFamilyIdx >= Len(queueFamilies)
    /\ qfResult' = Uint32Max
    /\ qfPc' = "returned"
    /\ UNCHANGED <<queueFamilies, surfaceGiven, queueFamilyIdx, hasIdx, restOfQf>>

\* A physical device with some queue families; the caller passes &hasIdx, which
\* holds anything, and a surface or VK_NULL_HANDLE.
InitQf ==
    /\ StartOfMain("extmem", 1)
    /\ run = 1
    /\ ppm1 = Undefined
    /\ OnlyPart("qf")
    /\ qfPc = "enter"
    /\ \E n \in 0 .. MaxFamilies : queueFamilies \in FamilyLists(n)
    /\ surfaceGiven \in BOOLEAN
    /\ queueFamilyIdx = 0
    /\ hasIdx \in BOOLEAN
    /\ qfResult = 0

NextQf == QfEnter \/ QfVisit \/ QfNoneLeft

QfSpec == InitQf /\ [][NextQf]_vars

\* ------------------------------------------- the dispatch of the compute example
\* CreateVulkan2DImage(.., VK_FORMAT_R8G8B8A8_UNORM, 256, 256, ..)
ImageSize == 256
\* layout(local_size_x = 16, local_size_y = 16) in;
LocalSize == 16
\* vkCmdDispatch(cmdBuffer, 256 / 16, 256/16, 1)
GroupCount == 256 \div 16
GroupTotal == GroupCount * GroupCount
ImageCoords == (0 .. (ImageSize - 1)) \X (0 .. (ImageSize - 1))

\* The texel of the source image at column cx of row cy, as the host filled it:
\* dataPtr[x * 256 + y] = red | (x << 8) | (y << 16) | (alpha << 24), rows being
\* 256 texels apart; red is 255 where bit 3 of exactly one of x and y is clear.
SourceTexel(cx, cy) ==
    LET x == cy
        y == cx
        red == IF (((x \div 8) % 2) = 0) # (((y \div 8) % 2) = 0) THEN 255 ELSE 0
    IN  <<red, x % 256, y % 256, 255>>

\* Faulty variant: the whole vec4 is inverted, alpha included.
InvertAll(texel) == [i \in 1 .. 4 |-> Quant8(FloatOne - Load8(texel[i]))]

\* vec3 invert = 1.0 - pixel.rgb; imageStore(.., vec4(invert, 1.0)): the rgba8
\* image loads c / 255 and stores the nearest step.
Invert(texel) ==
    [i \in 1 .. 4 |-> IF i <= 3 THEN Quant8(FloatOne - Load8(texel[i])) ELSE Quant8(FloatOne)]

\* The orders the workgroups are run in; the device may take any.
GroupOrders == {"rowMajor", "columnMajor", "reversed"}
NthGroup(order, k) ==
    CASE order = "rowMajor" -> <<k % GroupCount, k \div GroupCount>>
      [] order = "columnMajor" -> <<k \div GroupCount, k % GroupCount>>
      [] OTHER -> <<(GroupTotal - 1 - k) % GroupCount, (GroupTotal - 1 - k) \div GroupCount>>

\* gl_GlobalInvocationID.xy of the invocations of workgroup g.
GlobalInvocations(g) ==
    {<<g[1] * LocalSize + lx, g[2] * LocalSize + ly>> :
        lx \in 0 .. (LocalSize - 1), ly \in 0 .. (LocalSize - 1)}

\* if (pixel_coord.x < size.x && pixel_coord.y < size.y), size = imageSize(..)
InsideImage(c) == c[1] < ImageSize /\ c[2] < ImageSize

\* One workgroup runs: each of its invocations that passes the size test loads
\* its source texel and stores the inverted texel at the same coordinate.
RunWorkgroup ==
    /\ cmpPc = "dispatch"
    /\ groupsRun < GroupTotal
    /\ LET stores == {c \in GlobalInvocations(NthGroup(groupOrder, groupsRun)) :
                          InsideImage(c)}
       IN  /\ dstTexels' = Append(dstTexels,
                                  [c \in stores |-> Invert(SourceTexel(c[1], c[2]))])
           /\ rewritten' = rewritten \cup (written \cap stores)
           /\ written' = written \cup stores
           /\ outside' = outside \cup (stores \ ImageCoords)
    /\ groupsRun' = groupsRun + 1
    /\ UNCHANGED <<cmpPc, groupOrder, restOfCmp>>

\* vkWaitForFences returns: the dispatch has completed.
DispatchDone ==
    /\ cmpPc = "dispatch"
    /\ groupsRun = GroupTotal
    /\ cmpPc' = "done"
    /\ UNCHANGED <<groupOrder, groupsRun, dstTexels, written, rewritten, outside, restOfCmp>>

InitCmp ==
    /\ StartOfMain("glfw", 1)
    /\ run = 1
    /\ ppm1 = Undefined
    /\ OnlyPart("cmp")
    /\ cmpPc = "dispatch"
    /\ groupOrder \in GroupOrders
    /\ groupsRun = 0
    /\ dstTexels = <<>>
    /\ written = {}
    /\ rewritten = {}
    /\ outside = {}

NextCmp == RunWorkgroup \/ DispatchDone

CmpSpec == InitCmp /\ [][NextCmp]_vars

\* ================================================================ claims

\* The five named steps of an iteration, in the order they were performed.
NamedSteps ==
    SelectSeq(steps, LAMBDA n : n \in {"WAIT", "ACQUIRE", "GUARD", "SUBMIT", "PRESENT"})

C2_ShutdownEndsProducer == shutdownIssued ~> (tpc = "t_done")

\* C3: the descriptor main reads for the import is one the producer exported,
\* never the initial -1.
C3_ImportsExportedFd == importedImageFd # NotRead => importedImageFd \in ExportedFds

\* C4: when the descriptor is published, a producer submission that renders
\* into the shared image has completed.
C4_PublishedImageIsComplete == exposedImageFd # NoFd => publishedContent # Undefined

\* C5: the producer leaves its render loop only after main has issued the
\* shutdown notification.
C5_LeavesLoopAfterShutdown == tpc = "t_done" => shutdownIssued

C7_IterationShape ==
    pc = "advance" =>
        /\ NamedSteps = <<"WAIT", "ACQUIRE", "GUARD", "SUBMIT", "PRESENT">>
        /\ lastSubmit.cb = imageIndex
        /\ lastSubmit.fence = activeSyncIdx
        /\ lastSubmit.signalSem = activeSyncIdx
        /\ lastSubmit.waitSem = activeSyncIdx
        /\ lastPresent.image = imageIndex
        /\ lastPresent.waitSem = lastSubmit.signalSem

\* C7 witness: an iteration has presented an image whose index is not the slot's.
C7_Witness == pc = "advance" /\ imageIndex # activeSyncIdx /\ frame > imagesInFlight

\* C8: a non-success result of a native call of the loop aborts the program.
C8_NonSuccessAborts == failedCall # "none" => pc = "aborted"

\* C9: when the loop has ended and the readback starts, swapImages[0] has been
\* written by a frame submission that has completed.
C9_ReadbackOfRenderedFrame == pc = "readback" => imageWritten[ReadbackSource]

\* C10: two runs of the same example write the same pixels.
C10_SameOutputTwice == (run = 2 /\ pc = "done") => ppm = ppm1

\* C11: a pixel covered by exactly one colorizer triangle shows, in the colour
\* the compose shader outputs, that triangle's channel and nothing in the other two.
C11_SingleTriangleChannel ==
    \A i \in Instances :
        (passPc = "ended" /\ pixel.covered = {i} /\ pixel.fragColor[i + 1] >= Target) =>
            /\ outColor[i + 1] # 0
            /\ \A j \in (1 .. 3) \ {i + 1} : outColor[j] = 0

C13_SubpassAttachmentAccess ==
    \A r \in accesses :
        /\ (r.kind = "write" /\ r.subpass = 0 /\ r.instance = 0) => r.attachment = 1
        /\ (r.kind = "write" /\ r.subpass = 0 /\ r.instance = 1) => r.attachment = 2
        /\ (r.kind = "write" /\ r.subpass = 1) => r.attachment = 3
        /\ (r.kind = "write" /\ r.subpass = 2) => r.attachment = 0
        /\ r.kind = "read" => (r.subpass = 2 /\ r.attachment \in {1, 2, 3} /\ ~r.early)

\* C14: the pixels main reads back from the swapchain image the shared image
\* was blitted to are the pixels the producer wrote, red and blue exchanged.
C14_ReadbackEqualsProducerImage ==
    blitPc = "done" =>
        mainPpm = [i \in 1 .. Len(threadPpm) |->
                      <<threadPpm[i][3], threadPpm[i][2], threadPpm[i][1]>>]

\* C15: when main returns on the success path, every native object it created
\* has been destroyed or freed, and none more than once.
C15_EveryObjectDestroyedOnce ==
    resPc = "returned" => (created = destroyed /\ destroyedAgain = {})

\* C16: in the compute example a native setup call that fails terminates the
\* program at that call, before any later setup step.
C16_FailedSetupCallStops ==
    \A i \in callFailed :
        (callProg = "compute" /\ CallsOf(callProg)[i].kind = "native"
                              /\ CallsOf(callProg)[i].phase = "setup") =>
            (exitState = "terminated" /\ callStep = i - 1)

\* C17: the program returns 0 only if every native call, the shader load and
\* the opening and writing of the output file succeeded.
C17_ExitZeroMeansAllSucceeded == exitState = "returned0" => callFailed = {}

\* C18: exposedImageFd is written once, from -1 to the exported descriptor, and
\* never again; main reads it for the import once, at the one place after the
\* wait; when the program ends both have happened.
C18_FdWrittenOnceReadOnce ==
    [][/\ exposedImageFd' # exposedImageFd =>
            (exposedImageFd = NoFd /\ exposedImageFd' \in ExportedFds)
       /\ importedImageFd' # importedImageFd =>
            (importedImageFd = NotRead /\ pc = "m_readFd" /\ importedImageFd' = exposedImageFd)
       /\ (example = "extmem" /\ pc' = "done") =>
            (exposedImageFd' \in ExportedFds /\ importedImageFd' # NotRead)]_vars

\* C18 witness: the program has ended; the descriptor was published and main
\* has read it.
C18_Witness ==
    /\ example = "extmem"
    /\ pc = "done"
    /\ exposedImageFd \in ExportedFds
    /\ importedImageFd \in ExportedFds

\* C19: the slot index stays in 0 .. imagesInFlight - 1 and changes only at the
\* end of an iteration, once, to (i + 1) mod imagesInFlight; the k-th iteration
\* (counted from 0) runs on slot k mod imagesInFlight and hands that slot's
\* fence and two semaphores to the submission and the present request.
C19_SlotOfIteration ==
    [][/\ activeSyncIdx' \in Slots
       /\ activeSyncIdx' # activeSyncIdx => pc = "advance"
       /\ (pc = "advance" /\ pc' # "advance") =>
            activeSyncIdx' = (activeSyncIdx + 1) % imagesInFlight
       /\ pc' \in {"wait", "acquire", "guard", "reset", "submit", "present", "advance"} =>
            activeSyncIdx' = (frame' - 1) % imagesInFlight
       /\ pc' = "advance" =>
            /\ lastSubmit'.fence = (frame' - 1) % imagesInFlight
            /\ lastSubmit'.waitSem = (frame' - 1) % imagesInFlight
            /\ lastSubmit'.signalSem = (frame' - 1) % imagesInFlight
            /\ lastPresent'.waitSem = (frame' - 1) % imagesInFlight]_vars

\* C19 witness: the third iteration has submitted and presented on slot 0 again.
C19_Witness ==
    /\ pc = "advance"
    /\ frame = imagesInFlight + 1
    /\ activeSyncIdx = 0
    /\ lastSubmit.fence = 0

\* The bytes of a file up to its first newline, and the bytes after it.
RECURSIVE FirstLine(_)
FirstLine(bytes) ==
    IF bytes = <<>> \/ Head(bytes) = NewLine THEN <<>>
    ELSE <<Head(bytes)>> \o FirstLine(Tail(bytes))
AfterFirstLine(bytes) == SubSeq(bytes, Len(FirstLine(bytes)) + 2, Len(bytes))

\* The number a sequence of decimal digits denotes; -1 if it is not one.
RECURSIVE ParseDecimal(_)
ParseDecimal(chars) ==
    IF chars = <<>> THEN 0 - 1
    ELSE LET last == chars[Len(chars)]
             d == IF \E k \in 1 .. 10 : DigitChars[k] = last
                  THEN (CHOOSE k \in 1 .. 10 : DigitChars[k] = last) - 1
                  ELSE 0 - 1
             front == SubSeq(chars, 1, Len(chars) - 1)
         IN  IF d < 0 THEN 0 - 1
             ELSE IF front = <<>> THEN d
             ELSE IF ParseDecimal(front) < 0 THEN 0 - 1
             ELSE 10 * ParseDecimal(front) + d

\* C20: the file an example has written starts with the four header fields
\* P6, width, height and 255, each ended by a newline, and the width and height
\* read back from it are the render size of the example.
C20_PpmHeaderFields ==
    ppmPc \in {"pixels", "closed"} =>
        LET l1 == FirstLine(fileBytes)
            r1 == AfterFirstLine(fileBytes)
            l2 == FirstLine(r1)
            r2 == AfterFirstLine(r1)
            l3 == FirstLine(r2)
            r3 == AfterFirstLine(r2)
            l4 == FirstLine(r3)
        IN  /\ l1 = <<"P", "6">>
            /\ ParseDecimal(l2) = renderWidth
            /\ ParseDecimal(l3) = renderHeight
            /\ l4 = <<"2", "5", "5">>
            /\ Len(fileBytes) >= Len(l1) + Len(l2) + Len(l3) + Len(l4) + 4
            /\ fileBytes[Len(l1) + Len(l2) + Len(l3) + Len(l4) + 4] = NewLine
            /\ ppmExample = "vktriangle" => renderWidth = FixedRenderSize

\* C20 witness: the GLFW example has written the header of a 1024 x 512 image.
C20_Witness ==
    /\ ppmPc = "closed"
    /\ ppmExample = "glfw"
    /\ renderWidth = 1024
    /\ renderHeight = 512
    /\ SubSeq(fileBytes, 1, 12) =
           <<"P", "6", NewLine, "1", "0", "2", "4", NewLine, "5", "1", "2", NewLine>>

\* C21: the pixel loop writes width x height triplets in row-major order, the
\* triplet of pixel (x, y) being the three bytes at y * rowPitch + 4 * x of the
\* mapped image, and it reads no byte that is not a pixel byte of a mapped row.
C21_PixelTriplets ==
    /\ \A o \in readOffsets :
           \E y \in 0 .. dumpHeight - 1 :
               /\ o >= y * rowPitch
               /\ o < y * rowPitch + 4 * dumpWidth
    /\ dumpPc = "closed" =>
           /\ Len(pixelBytes) = 3 * dumpWidth * dumpHeight
           /\ \A y \in 0 .. dumpHeight - 1 : \A x \in 0 .. dumpWidth - 1 :
                  \A k \in 0 .. 2 :
                      pixelBytes[3 * (y * dumpWidth + x) + k + 1]
                          = mapped[y * rowPitch + 4 * x + k + 1]

\* C21 witness: a 2 x 2 image whose rows are padded has been written.
C21_Witness ==
    /\ dumpPc = "closed"
    /\ dumpWidth = 2
    /\ dumpHeight = 2
    /\ rowPitch > 4 * dumpWidth
    /\ Len(pixelBytes) = 12
    /\ pixelBytes[7] = mapped[rowPitch + 1]

C23_UniformWriteWhenIdle ==
    [][(example = "subpass" /\ uniformData' # uniformData) => UniformReaders = {}]_vars

\* C24: in the subpass example no frame submission writes the intermediate
\* attachments while an earlier frame submission in flight uses them.
C24_IntermediateAttachmentsExclusive ==
    (example = "subpass" /\ InFlightTogether # {}) => UnorderedIntermediateWriters = {}

\* C25: in the memory-sharing example no frame submission that reads the
\* imported image is in flight together with a producer submission that writes it.
C25_NoReadDuringProducerWrite ==
    ~(SharedImageReaders # {} /\ SharedImageWriterActive)

\* C26: a semaphore of a slot gets a new signal operation only when the wait
\* queued by the slot's previous use has completed: the acquire signals the
\* image-available semaphore only when no submission that waits on it is in
\* flight, and the submit signals the render-finished semaphore only when no
\* present request that waits on it is pending.
C26_NoSignalBeforeWaitDone ==
    [][/\ (pc = "acquire" /\ pc' = "guard") =>
              \A s \in inflight : s.fence # activeSyncIdx
       /\ (pc = "submit" /\ pc' = "present") =>
              \A p \in presentWaits : p.sem # SubmitInfo.signalSem]_vars

C28_DestroyedWhenIdle ==
    (example \in LoopExamples /\ pc = "done") => (inflight = {} /\ presentWaits = {})

\* C29: when FindQueueFamily has returned with *hasIdx = true, the index it
\* returned is that of a family of the device with the graphics bit which, if a
\* surface is given, can present to it; in particular it is not UINT32_MAX.
C29_FoundFamilyIsSuitable ==
    (qfPc = "returned" /\ hasIdx) =>
        /\ qfResult # Uint32Max
        /\ qfResult \in 0 .. (Len(queueFamilies) - 1)
        /\ queueFamilies[qfResult + 1].graphics
        /\ surfaceGiven => queueFamilies[qfResult + 1].present

\* C30: no pixel of the destination image is stored to twice and none outside
\* it, every stored texel is 255 minus the source texel in r, g and b with
\* alpha 255, and when the dispatch is done every pixel has been stored to.
C30_DispatchInvertsEveryPixel ==
    /\ rewritten = {}
    /\ outside = {}
    /\ groupsRun > 0 =>
           LET g == dstTexels[groupsRun]
           IN  \A c \in DOMAIN g :
                   g[c] = <<255 - SourceTexel(c[1], c[2])[1],
                            255 - SourceTexel(c[1], c[2])[2],
                            255 - SourceTexel(c[1], c[2])[3], 255>>
    /\ cmpPc = "done" => written = ImageCoords

\* C30 witness: two workgroups have run and the corner pixel (255, 255), whose
\* source texel is (0, 255, 255, 255), holds (255, 0, 0, 255).
C30_Witness ==
    /\ groupsRun = 2
    /\ Cardinality(written) = 2 * LocalSize * LocalSize
    /\ \E k \in 1 .. Len(dstTexels) :
           /\ <<255, 255>> \in DOMAIN dstTexels[k]
           /\ dstTexels[k][<<255, 255>>] = <<255, 0, 0, 255>>

====
